---------------------------- MODULE Spec2Model ----------------------------
(***************************************************************************)
(* Visualization-generation pipeline of the tutoring backend: the          *)
(* in-memory JobManager (api/viz/job_manager.py), the modality dispatcher  *)
(* (api/viz/generator.py), the renderers it calls, the lesson-selection    *)
(* route that creates and starts jobs (api/routes/lesson.py) and the poll  *)
(* route (api/routes/viz.py).                                              *)
(*                                                                         *)
(* The backend is one asyncio event loop on one thread.  A handler or a    *)
(* background task runs on that thread until it awaits something that      *)
(* really suspends; `current` names the asyncio task that holds the thread *)
(* (0 when the loop is free to run another handler).  Which ready handler  *)
(* the loop runs next is left open.                                        *)
(*                                                                         *)
(* Python's None is the empty tuple and a present value x is <<x>>, so     *)
(* that optional fields stay comparable.  Strings built by concatenation   *)
(* or f-strings are tuples of their parts.  The timestamps created_at and  *)
(* updated_at of a Job are not modelled: nothing reads them.               *)
(***************************************************************************)
EXTENDS Integers, Sequences, FiniteSets, TLC

\* ------------------------------------------------------------------ bounds
\* number of ids uuid4 can hand to create_job
MaxJobs == 2
\* number of start_job calls made by direct callers of the JobManager
MaxTasks == 2
\* number of ids uuid4 can hand to create_session
MaxSessions == 1

\* number of calls direct callers make to manim_generator's functions
MaxCalls == 2

JobIds == 1..MaxJobs
\* MaxJobs + 1 is an id no create_job call ever returned
AllJobIds == 1..(MaxJobs + 1)
SessionIds == 1..MaxSessions
AllSessionIds == 1..(MaxSessions + 1)

\* arguments of create_session tried by the model
CenterInputs == {"integrals", "not_a_node"}
DomainInputs == {"calculus"}
\* nodeId values of select_lesson requests tried by the model
NodeInputs == {"derivatives", "integrals", "fundamental_theorem", "not_a_node"}
\* arguments direct callers pass to update_stage, complete_job and fail_job
StageInputs == {"stage A"}
ResultInputs == {<<"result A">>}
ErrorInputs == {<<"error A">>}

\* topic arguments direct callers pass to manim_generator's functions
VideoTopicInputs == {"derivatives", "integrals", "probability"}
\* the scenes of pregenerate_videos.py that are rendered in the model
PregenInputs == {"calculus"}
\* constructor arguments of the voice activity detector, in frames of
\* FrameDurationMs, and the frames it is fed: a frame is named by how its
\* RMS energy compares with energy_threshold
FrameDurationMs == 30
SpeechStartInputs == {1, 2}
SilenceDurationInputs == {30, 60}
MaxUtteranceMsInputs == {90}
PrerollMsInputs == {30, 90}
FrameInputs == {"above", "equal", "below"}
\* how many of the latest frames the detector's record of its input keeps
MaxHeard == 2
\* topics and lesson titles handed to the two renderers; the second title
\* holds the name of a scene class
SceneTopicInputs ==
  {"integrals", "derivatives", "probability", "not_a_node",
   "atomic_structure"}
SceneTitleInputs == {"Integrals", "LimitVisualization explained"}
\* new centers and new domains handed to the session store: a node of the
\* calculus graph, a node of the physics graph, and an id of neither
NewCenterInputs == {"integrals", "mechanics", "not_a_node"}
NewDomainInputs == {"calculus", "physics", "not_a_domain"}
\* topics and pregenerated videos for the cache classification; the topic
\* "reaction_curve" has keywords of two categories
CacheTopicInputs == {"derivatives", "probability", "reaction_curve"}
CachePregenInputs == {"calculus", "chemistry"}

None == <<>>
Some(x) == <<x>>

\* ------------------------------------------------- tables of the source
DOMAINS ==
  [ calculus |-> [name |-> "Calculus", default_center |-> "derivatives"],
    neural_networks |-> [name |-> "Neural Networks & ML", default_center |-> "neural_networks"],
    linear_algebra |-> [name |-> "Linear Algebra", default_center |-> "vectors"],
    physics |-> [name |-> "Physics", default_center |-> "mechanics"],
    statistics |-> [name |-> "Statistics", default_center |-> "probability"],
    discrete_math |-> [name |-> "Discrete Math", default_center |-> "graphs"] ]

DOMAIN_GRAPHS ==
  [ calculus |->
    [ derivatives |->
        [label |-> "Derivatives",
         related |-> << <<"limits", "Limits">>, <<"chain_rule", "Chain Rule">>, <<"product_rule", "Product Rule">>, <<"power_rule", "Power Rule">>, <<"implicit_differentiation", "Implicit Differentiation">> >>],
      integrals |->
        [label |-> "Integrals",
         related |-> << <<"derivatives", "Derivatives">>, <<"integration_by_parts", "Integration by Parts">>, <<"substitution", "U-Substitution">>, <<"definite_integrals", "Definite Integrals">>, <<"fundamental_theorem", "Fundamental Theorem">> >>],
      limits |->
        [label |-> "Limits",
         related |-> << <<"derivatives", "Derivatives">>, <<"continuity", "Continuity">>, <<"lhopitals_rule", "L'H??pital's Rule">>, <<"infinite_limits", "Infinite Limits">>, <<"sequences", "Sequences">> >>],
      chain_rule |->
        [label |-> "Chain Rule",
         related |-> << <<"derivatives", "Derivatives">>, <<"product_rule", "Product Rule">>, <<"implicit_differentiation", "Implicit Differentiation">>, <<"related_rates", "Related Rates">> >>],
      product_rule |->
        [label |-> "Product Rule",
         related |-> << <<"derivatives", "Derivatives">>, <<"chain_rule", "Chain Rule">>, <<"quotient_rule", "Quotient Rule">> >>],
      power_rule |->
        [label |-> "Power Rule",
         related |-> << <<"derivatives", "Derivatives">>, <<"polynomials", "Polynomials">>, <<"exponential_functions", "Exponential Functions">> >>],
      implicit_differentiation |->
        [label |-> "Implicit Differentiation",
         related |-> << <<"derivatives", "Derivatives">>, <<"chain_rule", "Chain Rule">>, <<"related_rates", "Related Rates">> >>],
      integration_by_parts |->
        [label |-> "Integration by Parts",
         related |-> << <<"integrals", "Integrals">>, <<"product_rule", "Product Rule">>, <<"definite_integrals", "Definite Integrals">> >>],
      substitution |->
        [label |-> "U-Substitution",
         related |-> << <<"integrals", "Integrals">>, <<"chain_rule", "Chain Rule">>, <<"definite_integrals", "Definite Integrals">> >>],
      definite_integrals |->
        [label |-> "Definite Integrals",
         related |-> << <<"integrals", "Integrals">>, <<"fundamental_theorem", "Fundamental Theorem">>, <<"riemann_sums", "Riemann Sums">> >>],
      continuity |->
        [label |-> "Continuity",
         related |-> << <<"limits", "Limits">>, <<"derivatives", "Derivatives">>, <<"intermediate_value", "Intermediate Value Theorem">> >>] ],
    neural_networks |->
    [ neural_networks |->
        [label |-> "Neural Networks",
         related |-> << <<"perceptron", "Perceptron">>, <<"activation_functions", "Activation Functions">>, <<"backpropagation", "Backpropagation">>, <<"convolutional_networks", "CNNs">>, <<"loss_functions", "Loss Functions">> >>],
      perceptron |->
        [label |-> "Perceptron",
         related |-> << <<"neural_networks", "Neural Networks">>, <<"activation_functions", "Activation Functions">>, <<"sigmoid", "Sigmoid">> >>],
      activation_functions |->
        [label |-> "Activation Functions",
         related |-> << <<"neural_networks", "Neural Networks">>, <<"relu", "ReLU">>, <<"sigmoid", "Sigmoid">>, <<"perceptron", "Perceptron">> >>],
      relu |->
        [label |-> "ReLU",
         related |-> << <<"activation_functions", "Activation Functions">>, <<"convolutional_networks", "CNNs">>, <<"backpropagation", "Backpropagation">> >>],
      sigmoid |->
        [label |-> "Sigmoid",
         related |-> << <<"activation_functions", "Activation Functions">>, <<"perceptron", "Perceptron">>, <<"loss_functions", "Loss Functions">> >>],
      backpropagation |->
        [label |-> "Backpropagation",
         related |-> << <<"neural_networks", "Neural Networks">>, <<"gradient_descent", "Gradient Descent">>, <<"loss_functions", "Loss Functions">>, <<"activation_functions", "Activation Functions">> >>],
      gradient_descent |->
        [label |-> "Gradient Descent",
         related |-> << <<"backpropagation", "Backpropagation">>, <<"loss_functions", "Loss Functions">>, <<"regularization", "Regularization">> >>],
      loss_functions |->
        [label |-> "Loss Functions",
         related |-> << <<"neural_networks", "Neural Networks">>, <<"backpropagation", "Backpropagation">>, <<"gradient_descent", "Gradient Descent">> >>],
      convolutional_networks |->
        [label |-> "CNNs",
         related |-> << <<"neural_networks", "Neural Networks">>, <<"relu", "ReLU">>, <<"regularization", "Regularization">> >>],
      regularization |->
        [label |-> "Regularization",
         related |-> << <<"neural_networks", "Neural Networks">>, <<"gradient_descent", "Gradient Descent">>, <<"convolutional_networks", "CNNs">> >>] ],
    linear_algebra |->
    [ vectors |->
        [label |-> "Vectors",
         related |-> << <<"dot_product", "Dot Product">>, <<"cross_product", "Cross Product">>, <<"matrices", "Matrices">>, <<"vector_spaces", "Vector Spaces">> >>],
      dot_product |->
        [label |-> "Dot Product",
         related |-> << <<"vectors", "Vectors">>, <<"cross_product", "Cross Product">>, <<"matrices", "Matrices">> >>],
      cross_product |->
        [label |-> "Cross Product",
         related |-> << <<"vectors", "Vectors">>, <<"dot_product", "Dot Product">>, <<"determinants", "Determinants">> >>],
      matrices |->
        [label |-> "Matrices",
         related |-> << <<"vectors", "Vectors">>, <<"matrix_multiplication", "Matrix Multiplication">>, <<"linear_transformations", "Linear Transformations">>, <<"determinants", "Determinants">> >>],
      matrix_multiplication |->
        [label |-> "Matrix Multiplication",
         related |-> << <<"matrices", "Matrices">>, <<"linear_transformations", "Linear Transformations">>, <<"inverse_matrix", "Matrix Inverse">> >>],
      linear_transformations |->
        [label |-> "Linear Transformations",
         related |-> << <<"matrices", "Matrices">>, <<"eigenvalues", "Eigenvalues">>, <<"eigenvectors", "Eigenvectors">> >>],
      eigenvalues |->
        [label |-> "Eigenvalues",
         related |-> << <<"linear_transformations", "Linear Transformations">>, <<"eigenvectors", "Eigenvectors">>, <<"determinants", "Determinants">> >>],
      eigenvectors |->
        [label |-> "Eigenvectors",
         related |-> << <<"eigenvalues", "Eigenvalues">>, <<"linear_transformations", "Linear Transformations">>, <<"vector_spaces", "Vector Spaces">> >>],
      determinants |->
        [label |-> "Determinants",
         related |-> << <<"matrices", "Matrices">>, <<"inverse_matrix", "Matrix Inverse">>, <<"cross_product", "Cross Product">> >>],
      inverse_matrix |->
        [label |-> "Matrix Inverse",
         related |-> << <<"matrices", "Matrices">>, <<"determinants", "Determinants">>, <<"matrix_multiplication", "Matrix Multiplication">> >>],
      vector_spaces |->
        [label |-> "Vector Spaces",
         related |-> << <<"vectors", "Vectors">>, <<"eigenvectors", "Eigenvectors">>, <<"linear_transformations", "Linear Transformations">> >>] ],
    physics |->
    [ mechanics |->
        [label |-> "Mechanics",
         related |-> << <<"kinematics", "Kinematics">>, <<"forces", "Forces">>, <<"momentum", "Momentum">>, <<"energy", "Energy">>, <<"rotation", "Rotation">> >>],
      kinematics |->
        [label |-> "Kinematics",
         related |-> << <<"mechanics", "Mechanics">>, <<"forces", "Forces">>, <<"projectile_motion", "Projectile Motion">> >>],
      forces |->
        [label |-> "Forces",
         related |-> << <<"mechanics", "Mechanics">>, <<"newtons_laws", "Newton's Laws">>, <<"momentum", "Momentum">>, <<"kinematics", "Kinematics">> >>],
      newtons_laws |->
        [label |-> "Newton's Laws",
         related |-> << <<"forces", "Forces">>, <<"momentum", "Momentum">>, <<"energy", "Energy">> >>],
      momentum |->
        [label |-> "Momentum",
         related |-> << <<"mechanics", "Mechanics">>, <<"forces", "Forces">>, <<"newtons_laws", "Newton's Laws">>, <<"energy", "Energy">> >>],
      energy |->
        [label |-> "Energy",
         related |-> << <<"mechanics", "Mechanics">>, <<"work", "Work">>, <<"momentum", "Momentum">> >>],
      work |->
        [label |-> "Work",
         related |-> << <<"energy", "Energy">>, <<"forces", "Forces">>, <<"kinematics", "Kinematics">> >>],
      rotation |->
        [label |-> "Rotation",
         related |-> << <<"mechanics", "Mechanics">>, <<"oscillations", "Oscillations">>, <<"momentum", "Momentum">> >>],
      waves |->
        [label |-> "Waves",
         related |-> << <<"oscillations", "Oscillations">>, <<"energy", "Energy">>, <<"mechanics", "Mechanics">> >>],
      oscillations |->
        [label |-> "Oscillations",
         related |-> << <<"waves", "Waves">>, <<"rotation", "Rotation">>, <<"energy", "Energy">> >>],
      projectile_motion |->
        [label |-> "Projectile Motion",
         related |-> << <<"kinematics", "Kinematics">>, <<"forces", "Forces">>, <<"energy", "Energy">> >>] ],
    statistics |->
    [ probability |->
        [label |-> "Probability",
         related |-> << <<"distributions", "Distributions">>, <<"bayes_theorem", "Bayes Theorem">>, <<"expected_value", "Expected Value">>, <<"variance", "Variance">> >>],
      distributions |->
        [label |-> "Distributions",
         related |-> << <<"probability", "Probability">>, <<"normal_distribution", "Normal Distribution">>, <<"expected_value", "Expected Value">> >>],
      normal_distribution |->
        [label |-> "Normal Distribution",
         related |-> << <<"distributions", "Distributions">>, <<"variance", "Variance">>, <<"hypothesis_testing", "Hypothesis Testing">> >>],
      bayes_theorem |->
        [label |-> "Bayes Theorem",
         related |-> << <<"probability", "Probability">>, <<"distributions", "Distributions">>, <<"hypothesis_testing", "Hypothesis Testing">> >>],
      expected_value |->
        [label |-> "Expected Value",
         related |-> << <<"probability", "Probability">>, <<"variance", "Variance">>, <<"distributions", "Distributions">> >>],
      variance |->
        [label |-> "Variance",
         related |-> << <<"expected_value", "Expected Value">>, <<"normal_distribution", "Normal Distribution">>, <<"regression", "Regression">> >>],
      hypothesis_testing |->
        [label |-> "Hypothesis Testing",
         related |-> << <<"normal_distribution", "Normal Distribution">>, <<"confidence_intervals", "Confidence Intervals">>, <<"bayes_theorem", "Bayes Theorem">> >>],
      confidence_intervals |->
        [label |-> "Confidence Intervals",
         related |-> << <<"hypothesis_testing", "Hypothesis Testing">>, <<"normal_distribution", "Normal Distribution">>, <<"variance", "Variance">> >>],
      regression |->
        [label |-> "Regression",
         related |-> << <<"correlation", "Correlation">>, <<"variance", "Variance">>, <<"expected_value", "Expected Value">> >>],
      correlation |->
        [label |-> "Correlation",
         related |-> << <<"regression", "Regression">>, <<"variance", "Variance">>, <<"probability", "Probability">> >>] ],
    discrete_math |->
    [ graphs |->
        [label |-> "Graph Theory",
         related |-> << <<"trees", "Trees">>, <<"paths", "Paths">>, <<"cycles", "Cycles">>, <<"connectivity", "Connectivity">> >>],
      trees |->
        [label |-> "Trees",
         related |-> << <<"graphs", "Graph Theory">>, <<"paths", "Paths">>, <<"recursion", "Recursion">> >>],
      paths |->
        [label |-> "Paths",
         related |-> << <<"graphs", "Graph Theory">>, <<"cycles", "Cycles">>, <<"connectivity", "Connectivity">> >>],
      cycles |->
        [label |-> "Cycles",
         related |-> << <<"graphs", "Graph Theory">>, <<"paths", "Paths">>, <<"trees", "Trees">> >>],
      connectivity |->
        [label |-> "Connectivity",
         related |-> << <<"graphs", "Graph Theory">>, <<"paths", "Paths">>, <<"trees", "Trees">> >>],
      combinatorics |->
        [label |-> "Combinatorics",
         related |-> << <<"permutations", "Permutations">>, <<"combinations", "Combinations">>, <<"sets", "Sets">> >>],
      permutations |->
        [label |-> "Permutations",
         related |-> << <<"combinatorics", "Combinatorics">>, <<"combinations", "Combinations">>, <<"recursion", "Recursion">> >>],
      combinations |->
        [label |-> "Combinations",
         related |-> << <<"combinatorics", "Combinatorics">>, <<"permutations", "Permutations">>, <<"sets", "Sets">> >>],
      logic |->
        [label |-> "Logic",
         related |-> << <<"proofs", "Proofs">>, <<"sets", "Sets">>, <<"recursion", "Recursion">> >>],
      proofs |->
        [label |-> "Proofs",
         related |-> << <<"logic", "Logic">>, <<"recursion", "Recursion">>, <<"sets", "Sets">> >>],
      recursion |->
        [label |-> "Recursion",
         related |-> << <<"trees", "Trees">>, <<"proofs", "Proofs">>, <<"combinatorics", "Combinatorics">> >>],
      sets |->
        [label |-> "Sets",
         related |-> << <<"logic", "Logic">>, <<"combinatorics", "Combinatorics">>, <<"graphs", "Graph Theory">> >>] ] ]

LESSON_CONTENT ==
  [ derivatives |->
      [title |-> "Derivatives",
       summary |-> << "Learn about rates of change and slopes of curves. Derivatives measure how a function changes as its input changes, forming the foundation of calculus." >>],
    integrals |->
      [title |-> "Integrals",
       summary |-> << "Discover how to find areas under curves and accumulate quantities. Integrals are the reverse operation of derivatives and have applications across physics and engineering." >>],
    limits |->
      [title |-> "Limits",
       summary |-> << "Understand the behavior of functions as they approach specific values. Limits are the foundational concept that makes calculus rigorous and precise." >>],
    chain_rule |->
      [title |-> "Chain Rule",
       summary |-> << "Master the technique for differentiating composite functions. The chain rule is essential for working with nested functions and complex relationships." >>],
    product_rule |->
      [title |-> "Product Rule",
       summary |-> << "Learn how to differentiate products of functions. This rule is crucial when working with functions that are multiplied together." >>],
    power_rule |->
      [title |-> "Power Rule",
       summary |-> << "The simplest and most fundamental differentiation rule. Learn how to differentiate any power of x quickly and efficiently." >>],
    implicit_differentiation |->
      [title |-> "Implicit Differentiation",
       summary |-> << "Differentiate equations where y is not isolated. This technique is powerful for curves and relationships that cannot be easily expressed as y=f(x)." >>],
    integration_by_parts |->
      [title |-> "Integration by Parts",
       summary |-> << "A technique for integrating products of functions. Based on the product rule, this method helps solve complex integrals." >>],
    substitution |->
      [title |-> "U-Substitution",
       summary |-> << "Simplify complex integrals through clever variable substitution. This technique is the integral analog of the chain rule." >>],
    definite_integrals |->
      [title |-> "Definite Integrals",
       summary |-> << "Calculate exact areas and accumulated quantities. Definite integrals give specific numerical values rather than general formulas." >>],
    continuity |->
      [title |-> "Continuity",
       summary |-> << "Explore functions that have no breaks or jumps. Continuous functions are smooth and predictable, making them easier to analyze." >>],
    fundamental_theorem |->
      [title |-> "Fundamental Theorem of Calculus",
       summary |-> << "The bridge connecting derivatives and integrals. This theorem shows that differentiation and integration are inverse operations." >>],
    neural_networks |->
      [title |-> "Neural Networks",
       summary |-> << "Learn the architecture of artificial neural networks. Understand how layers of interconnected neurons can learn complex patterns from data." >>],
    perceptron |->
      [title |-> "The Perceptron",
       summary |-> << "The simplest neural network unit. A perceptron computes a weighted sum of inputs and applies an activation function to produce output." >>],
    activation_functions |->
      [title |-> "Activation Functions",
       summary |-> << "How non-linearity enables learning. Activation functions like ReLU, sigmoid, and tanh allow networks to learn complex, non-linear relationships." >>],
    relu |->
      [title |-> "ReLU Activation",
       summary |-> << "Rectified Linear Unit - the most popular activation function. ReLU outputs the input directly if positive, otherwise outputs zero." >>],
    sigmoid |->
      [title |-> "Sigmoid Activation",
       summary |-> << "S-shaped squashing function that maps inputs to (0, 1). Useful for binary classification and probability outputs." >>],
    backpropagation |->
      [title |-> "Backpropagation",
       summary |-> << "How networks learn via gradient flow. Backpropagation computes gradients of the loss with respect to each weight using the chain rule." >>],
    gradient_descent |->
      [title |-> "Gradient Descent",
       summary |-> << "Optimization by following gradients. An iterative algorithm that updates parameters in the direction that reduces the loss function." >>],
    loss_functions |->
      [title |-> "Loss Functions",
       summary |-> << "Measuring prediction error. Loss functions like MSE and cross-entropy quantify how wrong predictions are, guiding the learning process." >>],
    convolutional_networks |->
      [title |-> "CNNs",
       summary |-> << "Neural networks for image processing. Convolutional layers detect spatial features like edges, textures, and patterns in images." >>],
    regularization |->
      [title |-> "Regularization",
       summary |-> << "Preventing overfitting in neural networks. Techniques like L1, L2 regularization, and dropout help models generalize better." >>],
    vectors |->
      [title |-> "Vectors",
       summary |-> << "Quantities with magnitude and direction. Vectors are fundamental objects in linear algebra, representing points, displacements, and forces." >>],
    dot_product |->
      [title |-> "Dot Product",
       summary |-> << "Measuring alignment between vectors. The dot product returns a scalar indicating how much two vectors point in the same direction." >>],
    cross_product |->
      [title |-> "Cross Product",
       summary |-> << "Creating perpendicular vectors. The cross product of two 3D vectors produces a vector perpendicular to both, with magnitude equal to the parallelogram area." >>],
    matrices |->
      [title |-> "Matrices",
       summary |-> << "Arrays representing linear transformations. Matrices can rotate, scale, shear, and project vectors in space." >>],
    matrix_multiplication |->
      [title |-> "Matrix Multiplication",
       summary |-> << "Composing linear transformations. When you multiply matrices, you're combining their transformations into a single operation." >>],
    linear_transformations |->
      [title |-> "Linear Transformations",
       summary |-> << "Functions preserving vector space structure. Linear transformations map lines to lines and preserve the origin." >>],
    eigenvalues |->
      [title |-> "Eigenvalues",
       summary |-> << "Scaling factors of transformations. Eigenvalues tell you how much eigenvectors are stretched or compressed by a matrix." >>],
    eigenvectors |->
      [title |-> "Eigenvectors",
       summary |-> << "Invariant directions under transformation. Eigenvectors are special directions that only get scaled, not rotated, by a matrix." >>],
    determinants |->
      [title |-> "Determinants",
       summary |-> << "Volume scaling factor of a transformation. The determinant tells you how a matrix scales areas (2D) or volumes (3D)." >>],
    inverse_matrix |->
      [title |-> "Matrix Inverse",
       summary |-> << "Reversing transformations. The inverse matrix undoes a transformation, useful for solving systems of equations." >>],
    vector_spaces |->
      [title |-> "Vector Spaces",
       summary |-> << "Abstract spaces for vectors. Vector spaces define rules for addition and scalar multiplication that vectors must follow." >>],
    mechanics |->
      [title |-> "Mechanics",
       summary |-> << "Study of motion and forces. Mechanics describes how objects move and what causes them to move or change direction." >>],
    kinematics |->
      [title |-> "Kinematics",
       summary |-> << "Describing motion mathematically. Kinematics uses position, velocity, and acceleration to describe how objects move through space." >>],
    forces |->
      [title |-> "Forces",
       summary |-> << "Push and pull interactions. Forces cause objects to accelerate, decelerate, or change direction according to Newton's laws." >>],
    newtons_laws |->
      [title |-> "Newton's Laws",
       summary |-> << "Fundamental laws of motion. These three laws describe inertia, F=ma, and action-reaction pairs that govern all mechanical systems." >>],
    momentum |->
      [title |-> "Momentum",
       summary |-> << "Mass in motion. Momentum (p=mv) is conserved in isolated systems and transfers between objects in collisions." >>],
    energy |->
      [title |-> "Energy",
       summary |-> << "Capacity to do work. Energy exists in many forms - kinetic, potential, thermal - and is always conserved in closed systems." >>],
    work |->
      [title |-> "Work",
       summary |-> << "Force times displacement. Work is energy transferred to an object when a force moves it through a distance." >>],
    waves |->
      [title |-> "Waves",
       summary |-> << "Energy transfer through medium. Waves carry energy without transporting matter, described by wavelength, frequency, and amplitude." >>],
    oscillations |->
      [title |-> "Oscillations",
       summary |-> << "Repetitive back-and-forth motion. Simple harmonic motion describes systems like pendulums and springs that oscillate periodically." >>],
    rotation |->
      [title |-> "Rotation",
       summary |-> << "Circular and angular motion. Rotation involves angular velocity, torque, and moment of inertia - the rotational analogs of linear motion." >>],
    projectile_motion |->
      [title |-> "Projectile Motion",
       summary |-> << "Objects moving under gravity. Projectiles follow parabolic paths, with horizontal and vertical motion analyzed independently." >>],
    probability |->
      [title |-> "Probability",
       summary |-> << "Measuring likelihood of events. Probability quantifies uncertainty, ranging from 0 (impossible) to 1 (certain)." >>],
    distributions |->
      [title |-> "Distributions",
       summary |-> << "Patterns in random variables. Probability distributions describe how likely different outcomes are for a random variable." >>],
    normal_distribution |->
      [title |-> "Normal Distribution",
       summary |-> << "The bell curve. The normal distribution appears throughout nature and statistics, characterized by mean and standard deviation." >>],
    bayes_theorem |->
      [title |-> "Bayes Theorem",
       summary |-> << "Updating beliefs with evidence. Bayes' theorem calculates conditional probabilities, essential for machine learning and inference." >>],
    expected_value |->
      [title |-> "Expected Value",
       summary |-> << "Average outcome of a random variable. Expected value weights each outcome by its probability, giving the long-run average." >>],
    variance |->
      [title |-> "Variance",
       summary |-> << "Spread of data around the mean. Variance measures how dispersed values are from the expected value." >>],
    hypothesis_testing |->
      [title |-> "Hypothesis Testing",
       summary |-> << "Making decisions from data. Hypothesis tests use sample data to decide whether to reject null hypotheses about populations." >>],
    confidence_intervals |->
      [title |-> "Confidence Intervals",
       summary |-> << "Range of plausible values. Confidence intervals provide a range likely to contain the true population parameter." >>],
    regression |->
      [title |-> "Regression",
       summary |-> << "Predicting relationships between variables. Regression finds the best-fit line or curve to model how variables relate." >>],
    correlation |->
      [title |-> "Correlation",
       summary |-> << "Strength of linear relationship. Correlation measures how strongly two variables move together, from -1 to +1." >>],
    graphs |->
      [title |-> "Graph Theory",
       summary |-> << "Networks of nodes and edges. Graphs model connections between objects, used in social networks, routing, and algorithms." >>],
    trees |->
      [title |-> "Trees",
       summary |-> << "Hierarchical connected graphs. Trees have no cycles and one path between any two nodes, used in data structures and search." >>],
    paths |->
      [title |-> "Paths",
       summary |-> << "Sequences through graphs. A path is a sequence of vertices connected by edges, fundamental to graph algorithms." >>],
    cycles |->
      [title |-> "Cycles",
       summary |-> << "Closed paths in graphs. A cycle is a path that starts and ends at the same vertex, important for detecting loops." >>],
    connectivity |->
      [title |-> "Connectivity",
       summary |-> << "Reachability in graphs. Connectivity determines whether paths exist between vertices and identifies components." >>],
    combinatorics |->
      [title |-> "Combinatorics",
       summary |-> << "Counting techniques. Combinatorics counts arrangements, selections, and configurations of objects." >>],
    permutations |->
      [title |-> "Permutations",
       summary |-> << "Ordered arrangements. Permutations count the number of ways to arrange objects where order matters." >>],
    combinations |->
      [title |-> "Combinations",
       summary |-> << "Unordered selections. Combinations count selections where order doesn't matter, like choosing committee members." >>],
    logic |->
      [title |-> "Logic",
       summary |-> << "Formal reasoning with propositions. Logic provides rules for combining statements with AND, OR, NOT, and implications." >>],
    proofs |->
      [title |-> "Proofs",
       summary |-> << "Mathematical arguments. Proofs demonstrate that statements are true using deduction, contradiction, or induction." >>],
    recursion |->
      [title |-> "Recursion",
       summary |-> << "Self-referential definitions. Recursive functions and structures define themselves in terms of smaller instances." >>],
    sets |->
      [title |-> "Sets",
       summary |-> << "Collections of distinct objects. Sets support operations like union, intersection, and complement for working with groups." >>] ]

VizBranches ==
  << [topics |-> { "derivatives", "chain_rule", "product_rule", "power_rule",
                   "quotient_rule" },
      viz |-> "three_spec"],
     [topics |-> { "integrals", "definite_integrals", "integration_by_parts",
                   "substitution", "riemann_sums" },
      viz |-> "manim_mp4"],
     [topics |-> { "limits", "continuity", "implicit_differentiation", "related_rates",
                   "sequences", "lhopitals_rule", "fundamental_theorem" },
      viz |-> "image"],
     [topics |-> { "neural_networks", "perceptron", "convolutional_networks", "relu",
                   "sigmoid", "activation_functions" },
      viz |-> "three_spec"],
     [topics |-> { "gradient_descent", "backpropagation" },
      viz |-> "manim_mp4"],
     [topics |-> { "loss_functions", "regularization" },
      viz |-> "image"],
     [topics |-> { "vectors", "dot_product", "cross_product", "eigenvalues",
                   "eigenvectors" },
      viz |-> "three_spec"],
     [topics |-> { "linear_transformations", "matrices", "matrix_multiplication" },
      viz |-> "manim_mp4"],
     [topics |-> { "determinants", "inverse_matrix", "vector_spaces" },
      viz |-> "image"],
     [topics |-> { "kinematics", "projectile_motion", "waves", "oscillations" },
      viz |-> "three_spec"],
     [topics |-> { "forces", "momentum", "energy", "mechanics" },
      viz |-> "manim_mp4"],
     [topics |-> { "newtons_laws", "work", "rotation" },
      viz |-> "image"],
     [topics |-> { "normal_distribution", "distributions", "regression", "correlation" },
      viz |-> "three_spec"],
     [topics |-> { "bayes_theorem", "probability" },
      viz |-> "manim_mp4"],
     [topics |-> { "hypothesis_testing", "confidence_intervals", "expected_value",
                   "variance" },
      viz |-> "image"],
     [topics |-> { "graphs", "trees" },
      viz |-> "three_spec"],
     [topics |-> { "paths", "cycles", "connectivity", "recursion" },
      viz |-> "manim_mp4"],
     [topics |-> { "sets", "logic", "combinatorics", "permutations", "combinations",
                   "proofs" },
      viz |-> "image"] >>

VizDefault == "three_spec"

SceneType ==
  { "derivative_graph", "integral_area", "limit_approach",
    "chain_rule_composition", "product_rule_split", "coordinate_system",
    "neural_network_diagram", "activation_function_graph",
    "gradient_descent_surface", "vector_visualization",
    "matrix_transformation", "eigenspace_visualization",
    "projectile_motion", "force_diagram", "wave_visualization",
    "pendulum_motion", "distribution_curve", "scatter_plot",
    "probability_tree", "graph_visualization", "tree_visualization",
    "set_diagram" }

SceneSpecs ==
  [ get_derivative_graph_spec |->
      [sceneType |-> "derivative_graph",
       keys |-> {"derivatives", "power_rule", "chain_rule"},
       default |-> "derivatives"],
    get_integral_area_spec |->
      [sceneType |-> "integral_area",
       keys |-> {"integrals", "definite_integrals", "integration_by_parts"},
       default |-> "integrals"],
    get_limit_approach_spec |->
      [sceneType |-> "limit_approach",
       keys |-> {"limits", "continuity"},
       default |-> "limits"],
    get_chain_rule_composition_spec |->
      [sceneType |-> "chain_rule_composition",
       keys |-> {},
       default |-> "fixed"],
    get_product_rule_split_spec |->
      [sceneType |-> "product_rule_split",
       keys |-> {},
       default |-> "fixed"],
    get_coordinate_system_spec |->
      [sceneType |-> "coordinate_system",
       keys |-> {},
       default |-> "fixed"],
    get_neural_network_diagram_spec |->
      [sceneType |-> "neural_network_diagram",
       keys |-> {"neural_networks", "perceptron", "convolutional_networks"},
       default |-> "neural_networks"],
    get_activation_function_spec |->
      [sceneType |-> "activation_function_graph",
       keys |-> {"relu", "sigmoid", "activation_functions"},
       default |-> "relu"],
    get_gradient_descent_spec |->
      [sceneType |-> "gradient_descent_surface",
       keys |-> {"gradient_descent", "backpropagation", "loss_functions"},
       default |-> "gradient_descent"],
    get_vector_visualization_spec |->
      [sceneType |-> "vector_visualization",
       keys |-> {"vectors", "dot_product", "cross_product"},
       default |-> "vectors"],
    get_matrix_transformation_spec |->
      [sceneType |-> "matrix_transformation",
       keys |-> {"linear_transformations", "matrices", "matrix_multiplication"},
       default |-> "linear_transformations"],
    get_eigenspace_spec |->
      [sceneType |-> "eigenspace_visualization",
       keys |-> {"eigenvalues", "eigenvectors"},
       default |-> "eigenvalues"],
    get_projectile_motion_spec |->
      [sceneType |-> "projectile_motion",
       keys |-> {"projectile_motion", "kinematics"},
       default |-> "projectile_motion"],
    get_force_diagram_spec |->
      [sceneType |-> "force_diagram",
       keys |-> {"forces", "newtons_laws", "momentum"},
       default |-> "forces"],
    get_wave_spec |->
      [sceneType |-> "wave_visualization",
       keys |-> {"waves", "oscillations"},
       default |-> "waves"],
    get_pendulum_spec |->
      [sceneType |-> "pendulum_motion",
       keys |-> {},
       default |-> "fixed"],
    get_distribution_spec |->
      [sceneType |-> "distribution_curve",
       keys |-> {"normal_distribution", "distributions", "probability"},
       default |-> "normal_distribution"],
    get_scatter_plot_spec |->
      [sceneType |-> "scatter_plot",
       keys |-> {"regression", "correlation"},
       default |-> "regression"],
    get_probability_tree_spec |->
      [sceneType |-> "probability_tree",
       keys |-> {"bayes_theorem", "expected_value"},
       default |-> "bayes_theorem"],
    get_graph_visualization_spec |->
      [sceneType |-> "graph_visualization",
       keys |-> {"graphs", "paths", "cycles", "connectivity"},
       default |-> "graphs"],
    get_tree_visualization_spec |->
      [sceneType |-> "tree_visualization",
       keys |-> {"trees", "recursion"},
       default |-> "trees"],
    get_set_diagram_spec |->
      [sceneType |-> "set_diagram",
       keys |-> {"sets", "logic", "combinatorics"},
       default |-> "sets"] ]

ThreeBranches ==
  << [topics |-> { "derivatives", "power_rule" },
      fn |-> "get_derivative_graph_spec", fixed_arg |-> ""],
     [topics |-> { "chain_rule" },
      fn |-> "get_chain_rule_composition_spec", fixed_arg |-> ""],
     [topics |-> { "product_rule", "quotient_rule" },
      fn |-> "get_product_rule_split_spec", fixed_arg |-> ""],
     [topics |-> { "integrals", "definite_integrals", "integration_by_parts",
                   "substitution" },
      fn |-> "get_integral_area_spec", fixed_arg |-> ""],
     [topics |-> { "limits", "continuity" },
      fn |-> "get_limit_approach_spec", fixed_arg |-> ""],
     [topics |-> { "neural_networks", "perceptron", "convolutional_networks" },
      fn |-> "get_neural_network_diagram_spec", fixed_arg |-> ""],
     [topics |-> { "relu", "sigmoid", "activation_functions" },
      fn |-> "get_activation_function_spec", fixed_arg |-> ""],
     [topics |-> { "gradient_descent", "backpropagation", "loss_functions" },
      fn |-> "get_gradient_descent_spec", fixed_arg |-> ""],
     [topics |-> { "regularization" },
      fn |-> "get_neural_network_diagram_spec", fixed_arg |-> "neural_networks"],
     [topics |-> { "vectors", "dot_product", "cross_product" },
      fn |-> "get_vector_visualization_spec", fixed_arg |-> ""],
     [topics |-> { "matrices", "linear_transformations", "matrix_multiplication" },
      fn |-> "get_matrix_transformation_spec", fixed_arg |-> ""],
     [topics |-> { "eigenvalues", "eigenvectors" },
      fn |-> "get_eigenspace_spec", fixed_arg |-> ""],
     [topics |-> { "determinants", "inverse_matrix", "vector_spaces" },
      fn |-> "get_matrix_transformation_spec", fixed_arg |-> "matrices"],
     [topics |-> { "projectile_motion", "kinematics" },
      fn |-> "get_projectile_motion_spec", fixed_arg |-> ""],
     [topics |-> { "forces", "newtons_laws", "momentum", "mechanics" },
      fn |-> "get_force_diagram_spec", fixed_arg |-> ""],
     [topics |-> { "waves", "oscillations" },
      fn |-> "get_wave_spec", fixed_arg |-> ""],
     [topics |-> { "rotation", "energy", "work" },
      fn |-> "get_pendulum_spec", fixed_arg |-> ""],
     [topics |-> { "normal_distribution", "distributions", "probability", "variance" },
      fn |-> "get_distribution_spec", fixed_arg |-> ""],
     [topics |-> { "regression", "correlation" },
      fn |-> "get_scatter_plot_spec", fixed_arg |-> ""],
     [topics |-> { "bayes_theorem", "expected_value" },
      fn |-> "get_probability_tree_spec", fixed_arg |-> ""],
     [topics |-> { "hypothesis_testing", "confidence_intervals" },
      fn |-> "get_distribution_spec", fixed_arg |-> "normal_distribution"],
     [topics |-> { "graphs", "paths", "cycles", "connectivity" },
      fn |-> "get_graph_visualization_spec", fixed_arg |-> ""],
     [topics |-> { "trees", "recursion" },
      fn |-> "get_tree_visualization_spec", fixed_arg |-> ""],
     [topics |-> { "sets", "logic", "combinatorics", "permutations", "combinations",
                   "proofs" },
      fn |-> "get_set_diagram_spec", fixed_arg |-> ""] >>

ThreeDefault == "get_coordinate_system_spec"
\* ------------------------------------------------------- pure functions

\* str.lower().replace(" ", "_") and str.replace(" ", "_") on the strings
\* the model uses; every node id of DOMAIN_GRAPHS is already in that form
LowerUnderscore ==
  ("Chain Rule" :> "chain_rule") @@ ("Integrals" :> "integrals")
Underscore ==
  ("Chain Rule" :> "Chain_Rule") @@ ("Integrals" :> "Integrals")

topic_lower(topic) ==
  IF topic \in DOMAIN LowerUnderscore THEN LowerUnderscore[topic] ELSE topic

topic_underscore(topic) ==
  IF topic \in DOMAIN Underscore THEN Underscore[topic] ELSE topic

RECURSIVE FirstMatch(_, _, _)
\* index of the first branch of an if/elif chain of `x in [...]` tests that
\* holds x, starting at branch i; 0 when the chain falls to its else
FirstMatch(branches, x, i) ==
  IF i > Len(branches) THEN 0
  ELSE IF x \in branches[i].topics THEN i
  ELSE FirstMatch(branches, x, i + 1)

select_viz_modality(topic) ==
  LET i == FirstMatch(VizBranches, topic_lower(topic), 1)
  IN  IF i = 0 THEN VizDefault ELSE VizBranches[i].viz

\* a get_*_spec that returns its scene type without the params payload
scene_spec_no_params(fn, topic) ==
  [sceneType |-> SceneSpecs[fn].sceneType]

\* the dict a get_*_spec function returns; params is named by the function
\* and the key of its table that was used
scene_spec(fn, topic) ==
  LET s == SceneSpecs[fn]
  IN  [sceneType |-> s.sceneType,
       params |-> IF s.keys = {} THEN <<fn, "fixed">>
                  ELSE IF topic \in s.keys THEN <<fn, topic>>
                  ELSE <<fn, s.default>>]

get_three_spec_for_topic(topic) ==
  LET tl == topic_lower(topic)
      i == FirstMatch(ThreeBranches, tl, 1)
  IN  IF i = 0 THEN scene_spec(ThreeDefault, tl)
      ELSE IF ThreeBranches[i].fixed_arg # ""
           THEN scene_spec(ThreeBranches[i].fn, ThreeBranches[i].fixed_arg)
           ELSE scene_spec(ThreeBranches[i].fn, tl)

\* validate_three_spec: the spec has a sceneType of the enumeration and a
\* params entry
validate_three_spec(spec) ==
  IF "sceneType" \notin DOMAIN spec THEN FALSE
  ELSE IF spec["sceneType"] \notin SceneType THEN FALSE
  ELSE IF "params" \notin DOMAIN spec THEN FALSE
  ELSE TRUE

\* ---------------------------------------------------------- session store

get_knowledge_graph_for_domain(domain) ==
  IF domain \in DOMAIN DOMAIN_GRAPHS THEN DOMAIN_GRAPHS[domain]
  ELSE DOMAIN_GRAPHS["calculus"]

generate_graph(center_id, domain) ==
  LET graph == get_knowledge_graph_for_domain(domain)
      domain_info == IF domain \in DOMAIN DOMAINS THEN DOMAINS[domain]
                     ELSE DOMAINS["calculus"]
      center == IF center_id \in DOMAIN graph THEN center_id
                ELSE domain_info.default_center
      related == graph[center].related
  IN  [nodes |-> <<[id |-> center, label |-> graph[center].label]>> \o
                 [i \in 1..Len(related) |->
                    [id |-> related[i][1], label |-> related[i][2]]],
       links |-> [i \in 1..Len(related) |->
                    [source |-> center, target |-> related[i][1]]]]

create_session(session_id, initial_center_id, domain) ==
  LET domain_info == IF domain \in DOMAIN DOMAINS THEN DOMAINS[domain]
                     ELSE DOMAINS["calculus"]
      center == IF initial_center_id = "derivatives" /\ domain # "calculus"
                THEN domain_info.default_center ELSE initial_center_id
      g == generate_graph(center, domain)
  IN  [session_id |-> session_id, center_id |-> center, domain |-> domain,
       nodes |-> g.nodes, links |-> g.links]

\* update_session_center that does not test new_center_id against the
\* graph of the session's domain
update_session_center_unchecked(ss, session_id, new_center_id) ==
  IF session_id \notin DOMAIN ss THEN [sessions |-> ss, value |-> None]
  ELSE LET session == ss[session_id]
           g == generate_graph(new_center_id, session.domain)
           new == [session EXCEPT !.center_id = new_center_id,
                                  !.nodes = g.nodes, !.links = g.links]
       IN  [sessions |-> [ss EXCEPT ![session_id] = new],
            value |-> Some(new)]

\* update_session_center on the store ss: the store it leaves and the value
\* it returns
update_session_center(ss, session_id, new_center_id) ==
  IF session_id \notin DOMAIN ss THEN [sessions |-> ss, value |-> None]
  ELSE LET session == ss[session_id]
           graph == get_knowledge_graph_for_domain(session.domain)
       IN  IF new_center_id \notin DOMAIN graph
           THEN [sessions |-> ss, value |-> None]
           ELSE LET g == generate_graph(new_center_id, session.domain)
                    new == [session EXCEPT !.center_id = new_center_id,
                                           !.nodes = g.nodes,
                                           !.links = g.links]
                IN  [sessions |-> [ss EXCEPT ![session_id] = new],
                     value |-> Some(new)]

\* switch_domain on the store ss: the store it leaves and the value it
\* returns
switch_domain(ss, session_id, new_domain) ==
  IF session_id \notin DOMAIN ss THEN [sessions |-> ss, value |-> None]
  ELSE IF new_domain \notin DOMAIN DOMAINS
  THEN [sessions |-> ss, value |-> None]
  ELSE LET session == ss[session_id]
           default_center == DOMAINS[new_domain].default_center
           g == generate_graph(default_center, new_domain)
           new == [session EXCEPT !.domain = new_domain,
                                  !.center_id = default_center,
                                  !.nodes = g.nodes, !.links = g.links]
       IN  [sessions |-> [ss EXCEPT ![session_id] = new],
            value |-> Some(new)]

\* ----------------------------------------------------------- JobManager

Job(job_id, status) ==
  [id |-> job_id, status |-> status, stage |-> "",
   result |-> None, error |-> None]

\* self.jobs[job_id] = Job(id=job_id, status=PENDING)
create_job(js, job_id) ==
  (job_id :> Job(job_id, "pending")) @@ js

get_job(js, job_id) ==
  IF job_id \in DOMAIN js THEN Some(js[job_id]) ELSE None

update_stage(js, job_id, stage) ==
  IF job_id \in DOMAIN js THEN [js EXCEPT ![job_id].stage = stage] ELSE js

\* complete_job writing through a record shared by all jobs
complete_job_shared(js, job_id, result) ==
  IF job_id \in DOMAIN js
  THEN [j \in DOMAIN js |->
          [js[j] EXCEPT !.status = "done", !.result = Some(result)]]
  ELSE js

complete_job(js, job_id, result) ==
  IF job_id \in DOMAIN js
  THEN [js EXCEPT ![job_id].status = "done", ![job_id].result = Some(result)]
  ELSE js

fail_job(js, job_id, error) ==
  IF job_id \in DOMAIN js
  THEN [js EXCEPT ![job_id].status = "error", ![job_id].error = Some(error)]
  ELSE js

\* ------------------------------------------------------------ poll route

VizJobResponse(status, stage, viz, message) ==
  [code |-> 200, status |-> status, stage |-> stage, viz |-> viz,
   message |-> message]

HTTPException(status_code, detail) ==
  [code |-> status_code, detail |-> detail]

get_viz_job(js, job_id) ==
  LET found == get_job(js, job_id)
      job == found[1]
  IN  IF found = None THEN HTTPException(404, <<"Job ", job_id, " not found">>)
      ELSE IF job.status = "pending"
        THEN VizJobResponse("pending", Some("Initializing..."), None, None)
      ELSE IF job.status = "running"
        THEN VizJobResponse("running",
               Some(IF job.stage = "" THEN "Processing..." ELSE job.stage),
               None, None)
      ELSE IF job.status = "done"
        THEN VizJobResponse("done", None, job.result, None)
      ELSE IF job.status = "error"
        THEN VizJobResponse("error", None, None,
               IF job.error = None \/ job.error = Some(<<>>)
               THEN Some(<<"Unknown error occurred">>) ELSE job.error)
      ELSE HTTPException(500, <<"Unknown job status: ", job.status>>)

\* ------------------------------------------------------------------ state

VARIABLES
  sessions,   \* session_store.sessions: session id -> Session
  jobs,       \* JobManager.jobs: job id -> Job
  tasks,      \* JobManager._tasks: job id -> index in coros of its asyncio task
  coros,      \* the asyncio tasks created by start_job, in creation order
  current,    \* index of the asyncio task running on the loop's thread, or 0
  files,      \* files on disk: temporary workspaces and the static store
  api_key,    \* gemini_image.GOOGLE_API_KEY is set
  vad,        \* the VoiceActivityDetector, None while none is constructed
  issued,     \* the ids create_job has returned, in call order
  reported,   \* job ids for which a poll has answered done or error
  calls       \* calls of manim_generator's functions, in call order

vars == <<sessions, jobs, tasks, coros, current, files, api_key, vad, issued,
          reported, calls>>

Terminal == {"done", "error"}

\* the asyncio task start_job creates around execute_job(job_id, task_func, ...)
Coroutine(job_id, task_func, topic, lesson_title, summary) ==
  [job |-> job_id, func |-> task_func, topic |-> topic,
   title |-> lesson_title, summary |-> summary,
   pc |-> "scheduled", outcome |-> "none", value |-> None]

\* an id generator that can hand out an id it has handed out before
uuid4_reuse(used) == JobIds

\* str(uuid.uuid4()): an id that was never drawn before.  Ids are opaque, so
\* which unused id is drawn makes no difference; the model draws the least.
uuid4(used) ==
  {id \in JobIds \ used : \A k \in JobIds \ used : id <= k}

Init ==
  /\ sessions = <<>>
  /\ jobs = <<>>
  /\ tasks = <<>>
  /\ coros = <<>>
  /\ current = 0
  /\ files = {}
  /\ api_key \in BOOLEAN
  /\ vad = None
  /\ issued = <<>>
  /\ reported = {}
  /\ calls = <<>>

Range(s) == {s[i] : i \in DOMAIN s}

\* ------------------------------------------------- JobManager operations

\* start_job: wrap execute_job in a task and remember it under the job id
start_job(job_id, task_func, topic, lesson_title, summary) ==
  /\ coros' = Append(coros,
                Coroutine(job_id, task_func, topic, lesson_title, summary))
  /\ tasks' = (job_id :> (Len(coros) + 1)) @@ tasks

\* a direct caller of JobManager.create_job
CreateJob ==
  /\ current = 0
  /\ \E job_id \in uuid4(Range(issued)) :
       /\ jobs' = create_job(jobs, job_id)
       /\ issued' = Append(issued, job_id)
  /\ UNCHANGED <<sessions, tasks, coros, current, files, api_key, vad, reported,
                 calls>>

\* a direct caller of JobManager.start_job with a unit of work of its own
StartJob(job_id) ==
  /\ current = 0
  /\ Len(coros) < MaxTasks
  /\ start_job(job_id, "work", "", "", None)
  /\ UNCHANGED <<sessions, jobs, current, files, api_key, vad, issued, reported,
                 calls>>

UpdateStage(job_id, stage) ==
  /\ current = 0
  /\ jobs' = update_stage(jobs, job_id, stage)
  /\ UNCHANGED <<sessions, tasks, coros, current, files, api_key, vad, issued,
                 reported, calls>>

CompleteJob(job_id, result) ==
  /\ current = 0
  /\ jobs' = complete_job(jobs, job_id, result)
  /\ UNCHANGED <<sessions, tasks, coros, current, files, api_key, vad, issued,
                 reported, calls>>

FailJob(job_id, error) ==
  /\ current = 0
  /\ jobs' = fail_job(jobs, job_id, error)
  /\ UNCHANGED <<sessions, tasks, coros, current, files, api_key, vad, issued,
                 reported, calls>>

\* --------------------------------------------------- execute_job, by steps

\* execute_job up to the call of task_func: the task gets the thread, returns
\* at once for an unknown id, else marks the job running
ExecBegin(t) ==
  /\ current = 0
  /\ t \in DOMAIN coros
  /\ coros[t].pc = "scheduled"
  /\ IF coros[t].job \notin DOMAIN jobs
     THEN /\ coros' = [coros EXCEPT ![t].pc = "finished"]
          /\ UNCHANGED <<jobs, current>>
     ELSE /\ jobs' = [jobs EXCEPT ![coros[t].job].status = "running"]
          /\ coros' = [coros EXCEPT ![t].pc = "task_func"]
          /\ current' = t
  /\ UNCHANGED <<sessions, tasks, files, api_key, vad, issued, reported, calls>>

\* execute_job without its except clause: the exception leaves the task and
\* only the finally clause runs
ExecEnd_no_except(t) ==
  /\ current = t
  /\ t \in DOMAIN coros
  /\ coros[t].pc \in {"returned", "raised"}
  /\ jobs' = IF coros[t].pc = "returned"
             THEN complete_job(jobs, coros[t].job, coros[t].value[1])
             ELSE jobs
  /\ tasks' = [j \in DOMAIN tasks \ {coros[t].job} |-> tasks[j]]
  /\ coros' = [coros EXCEPT ![t].pc = "finished", ![t].value = None]
  /\ current' = 0
  /\ UNCHANGED <<sessions, files, api_key, vad, issued, reported, calls>>

\* execute_job after task_func returned or raised: complete_job or fail_job,
\* then the finally clause drops the entry of the job id from _tasks
ExecEnd(t) ==
  /\ current = t
  /\ t \in DOMAIN coros
  /\ coros[t].pc \in {"returned", "raised"}
  /\ jobs' = IF coros[t].pc = "returned"
             THEN complete_job(jobs, coros[t].job, coros[t].value[1])
             ELSE fail_job(jobs, coros[t].job, coros[t].value[1])
  /\ tasks' = [j \in DOMAIN tasks \ {coros[t].job} |-> tasks[j]]
  /\ coros' = [coros EXCEPT ![t].pc = "finished", ![t].value = None]
  /\ current' = 0
  /\ UNCHANGED <<sessions, files, api_key, vad, issued, reported, calls>>

\* ------------------------------- a unit of work of a direct caller ("work")

\* the unit of work awaits something that suspends it: the thread is free
WorkAwait(t) ==
  /\ current = t
  /\ t \in DOMAIN coros
  /\ coros[t].func = "work" /\ coros[t].pc = "task_func"
  /\ coros' = [coros EXCEPT ![t].pc = "awaiting"]
  /\ current' = 0
  /\ UNCHANGED <<sessions, jobs, tasks, files, api_key, vad, issued, reported,
                 calls>>

WorkResume(t) ==
  /\ current = 0
  /\ t \in DOMAIN coros
  /\ coros[t].pc = "awaiting"
  /\ coros' = [coros EXCEPT ![t].pc = "task_func"]
  /\ current' = t
  /\ UNCHANGED <<sessions, jobs, tasks, files, api_key, vad, issued, reported,
                 calls>>

WorkReturn(t, result) ==
  /\ current = t
  /\ t \in DOMAIN coros
  /\ coros[t].func = "work" /\ coros[t].pc = "task_func"
  /\ coros' = [coros EXCEPT ![t].pc = "returned", ![t].value = Some(result)]
  /\ UNCHANGED <<sessions, jobs, tasks, current, files, api_key, vad, issued,
                 reported, calls>>

WorkRaise(t, error) ==
  /\ current = t
  /\ t \in DOMAIN coros
  /\ coros[t].func = "work" /\ coros[t].pc = "task_func"
  /\ coros' = [coros EXCEPT ![t].pc = "raised", ![t].value = Some(error)]
  /\ UNCHANGED <<sessions, jobs, tasks, current, files, api_key, vad, issued,
                 reported, calls>>

\* ------------------------------ generate_visualization_task, by its steps

StageOf ==
  [three_spec |-> "Building interactive 3D specification...",
   manim_mp4 |-> "Generating animation code...",
   image |-> "Creating educational diagram..."]

GeneratingStage ==
  [three_spec |-> "Generating three_spec visualization...",
   manim_mp4 |-> "Generating manim_mp4 visualization...",
   image |-> "Generating image visualization..."]

\* generate_visualization_task wraps whatever generate_visualization raised
TaskError(e) == <<"Visualization generation failed: ">> \o e

StaticFile(dir, job_id, topic, suffix) ==
  <<dir, job_id, topic_underscore(topic), suffix>>

StaticUrl(dir, job_id, topic, suffix) ==
  <<"/static/", dir, "/", job_id, "_", topic_underscore(topic), suffix>>

TempScript(t) == <<"tmp", t, "script", ".py">>
TempDir(t) == <<"tmp", t, "media_dir", "">>

\* what subprocess.run(cmd, timeout=60) can do: exit 0 and leave the video
\* under one of the quality folders or nowhere, exit nonzero, run into the
\* timeout, or fail to start
SubprocessOutcomes ==
  {"480p15", "720p30", "1080p60", "no_file", "nonzero", "timeout",
   "not_installed"}

\* generate_visualization with the return of the three_spec branch pasted
\* from the image branch: the dict says "image" and carries the spec
GenerateVisualization_mislabel(t) ==
  /\ current = t
  /\ t \in DOMAIN coros
  /\ coros[t].func = "generate_visualization_task"
  /\ coros[t].pc = "task_func"
  /\ LET c == coros[t]
         viz_type == select_viz_modality(c.topic)
         staged == update_stage(
                     update_stage(jobs, c.job, GeneratingStage[viz_type]),
                     c.job, StageOf[viz_type])
     IN  /\ jobs' = staged
         /\ CASE viz_type = "three_spec" ->
                   /\ coros' = [coros EXCEPT
                        ![t].pc = "returned",
                        ![t].value = Some([type |-> "image",
                           spec |-> Some(get_three_spec_for_topic(c.topic)),
                           url |-> None])]
                   /\ UNCHANGED files
              [] viz_type = "manim_mp4" ->
                   /\ coros' = [coros EXCEPT ![t].pc = "subprocess"]
                   /\ files' = files \cup {TempScript(t), TempDir(t)}
              [] viz_type = "image" ->
                   IF ~api_key
                   THEN /\ coros' = [coros EXCEPT
                             ![t].pc = "raised",
                             ![t].value = Some(TaskError(
                                <<"GOOGLE_API_KEY not configured">>))]
                        /\ UNCHANGED files
                   ELSE /\ coros' = [coros EXCEPT
                             ![t].pc = "returned",
                             ![t].value = Some([type |-> "image",
                                spec |-> None,
                                url |-> Some(StaticUrl("images", c.job,
                                               c.topic, ".svg"))])]
                        /\ files' = files \cup
                             {StaticFile("images", c.job, c.topic, ".svg")}
  /\ UNCHANGED <<sessions, tasks, current, api_key, vad, issued, reported, calls>>

\* generate_visualization from its first line to the return of the
\* three_spec and image branches, or into render_manim_video up to the
\* call of subprocess.run
GenerateVisualization(t) ==
  /\ current = t
  /\ t \in DOMAIN coros
  /\ coros[t].func = "generate_visualization_task"
  /\ coros[t].pc = "task_func"
  /\ LET c == coros[t]
         viz_type == select_viz_modality(c.topic)
         staged == update_stage(
                     update_stage(jobs, c.job, GeneratingStage[viz_type]),
                     c.job, StageOf[viz_type])
     IN  /\ jobs' = staged
         /\ CASE viz_type = "three_spec" ->
                   /\ coros' = [coros EXCEPT
                        ![t].pc = "returned",
                        ![t].value = Some([type |-> "three_spec",
                           spec |-> Some(get_three_spec_for_topic(c.topic)),
                           url |-> None])]
                   /\ UNCHANGED files
              [] viz_type = "manim_mp4" ->
                   /\ coros' = [coros EXCEPT ![t].pc = "subprocess"]
                   /\ files' = files \cup {TempScript(t), TempDir(t)}
              [] viz_type = "image" ->
                   IF ~api_key
                   THEN /\ coros' = [coros EXCEPT
                             ![t].pc = "raised",
                             ![t].value = Some(TaskError(
                                <<"GOOGLE_API_KEY not configured">>))]
                        /\ UNCHANGED files
                   ELSE /\ coros' = [coros EXCEPT
                             ![t].pc = "returned",
                             ![t].value = Some([type |-> "image",
                                spec |-> None,
                                url |-> Some(StaticUrl("images", c.job,
                                               c.topic, ".svg"))])]
                        /\ files' = files \cup
                             {StaticFile("images", c.job, c.topic, ".svg")}
  /\ UNCHANGED <<sessions, tasks, current, api_key, vad, issued, reported, calls>>

\* render_manim_video without its finally clause: when it raises, the
\* script file stays behind
Subprocess_no_finally(t, outcome) ==
  /\ current = t
  /\ t \in DOMAIN coros
  /\ coros[t].pc = "subprocess"
  /\ LET c == coros[t]
         found == outcome \in {"480p15", "720p30", "1080p60"}
     IN  /\ coros' = [coros EXCEPT
              ![t].outcome = outcome,
              ![t].pc = IF found THEN "returned" ELSE "raised",
              ![t].value = IF found
                  THEN Some([type |-> "manim_mp4", spec |-> None,
                             url |-> Some(StaticUrl("videos", c.job, c.topic,
                                            ".mp4"))])
                  ELSE Some(TaskError(<<"Manim rendering failed: ">>))]
         /\ files' = IF found
              THEN (files \ {TempScript(t), TempDir(t)}) \cup
                   {StaticFile("videos", c.job, c.topic, ".mp4")}
              ELSE files \ {TempDir(t)}
  /\ UNCHANGED <<sessions, jobs, tasks, current, api_key, vad, issued, reported,
                 calls>>

\* render_manim_video without the test of result.returncode: a video file a
\* failed run left behind is copied and its url returned
Subprocess_ignores_exit(t, outcome) ==
  /\ current = t
  /\ t \in DOMAIN coros
  /\ coros[t].pc = "subprocess"
  /\ LET c == coros[t]
         found == outcome \in {"480p15", "720p30", "1080p60", "nonzero"}
     IN  /\ coros' = [coros EXCEPT
              ![t].outcome = outcome,
              ![t].pc = IF found THEN "returned" ELSE "raised",
              ![t].value = IF found
                  THEN Some([type |-> "manim_mp4", spec |-> None,
                             url |-> Some(StaticUrl("videos", c.job, c.topic,
                                            ".mp4"))])
                  ELSE Some(TaskError(<<"Manim rendering failed: ">>))]
         /\ files' = (files \ {TempScript(t), TempDir(t)}) \cup
              (IF found THEN {StaticFile("videos", c.job, c.topic, ".mp4")}
               ELSE {})
  /\ UNCHANGED <<sessions, jobs, tasks, current, api_key, vad, issued, reported,
                 calls>>

\* subprocess.run called without timeout=60: a child that does not end keeps
\* the thread inside subprocess.run
Subprocess_no_timeout(t, outcome) ==
  /\ current = t
  /\ t \in DOMAIN coros
  /\ coros[t].pc = "subprocess"
  /\ LET c == coros[t]
         found == outcome \in {"480p15", "720p30", "1080p60"}
     IN  /\ coros' = [coros EXCEPT
              ![t].outcome = outcome,
              ![t].pc = IF outcome = "timeout" THEN "hung"
                        ELSE IF found THEN "returned" ELSE "raised",
              ![t].value = IF outcome = "timeout" THEN None
                  ELSE IF found
                  THEN Some([type |-> "manim_mp4", spec |-> None,
                             url |-> Some(StaticUrl("videos", c.job, c.topic,
                                            ".mp4"))])
                  ELSE Some(TaskError(<<"Manim rendering failed: ">>))]
         /\ files' = IF outcome = "timeout" THEN files
              ELSE (files \ {TempScript(t), TempDir(t)}) \cup
                   (IF found
                    THEN {StaticFile("videos", c.job, c.topic, ".mp4")}
                    ELSE {})
  /\ UNCHANGED <<sessions, jobs, tasks, current, api_key, vad, issued, reported,
                 calls>>

\* render_manim_video wrapped in a retry: a failed run of the child is
\* followed by a second subprocess.run for the same render call
Subprocess_retry(t, outcome) ==
  /\ current = t
  /\ t \in DOMAIN coros
  /\ coros[t].pc = "subprocess"
  /\ LET c == coros[t]
         found == outcome \in {"480p15", "720p30", "1080p60"}
         again == ~found /\ c.outcome = "none"
     IN  /\ coros' = [coros EXCEPT
              ![t].outcome = outcome,
              ![t].pc = IF found THEN "returned"
                        ELSE IF again THEN "subprocess" ELSE "raised",
              ![t].value = IF found
                  THEN Some([type |-> "manim_mp4", spec |-> None,
                             url |-> Some(StaticUrl("videos", c.job, c.topic,
                                            ".mp4"))])
                  ELSE IF again THEN None
                  ELSE Some(TaskError(<<"Manim rendering failed: ">>))]
         /\ files' = IF again THEN files
              ELSE (files \ {TempScript(t), TempDir(t)}) \cup
                   (IF found
                    THEN {StaticFile("videos", c.job, c.topic, ".mp4")}
                    ELSE {})
  /\ UNCHANGED <<sessions, jobs, tasks, current, api_key, vad, issued, reported,
                 calls>>

\* render_manim_video from subprocess.run to its end: the thread is inside
\* subprocess.run until the child has ended or the timeout has cut it off
Subprocess(t, outcome) ==
  /\ current = t
  /\ t \in DOMAIN coros
  /\ coros[t].pc = "subprocess"
  /\ LET c == coros[t]
         found == outcome \in {"480p15", "720p30", "1080p60"}
         e == CASE outcome = "nonzero" -> <<"Manim rendering failed: ">>
                [] outcome = "timeout" -> <<"Command timed out after 60 seconds">>
                [] outcome = "not_installed" -> <<"No such file or directory: manim">>
                [] OTHER -> <<"Rendered video not found at expected path: ">>
     IN  /\ coros' = [coros EXCEPT
              ![t].outcome = outcome,
              ![t].pc = IF found THEN "returned" ELSE "raised",
              ![t].value = IF found
                  THEN Some([type |-> "manim_mp4", spec |-> None,
                             url |-> Some(StaticUrl("videos", c.job, c.topic,
                                            ".mp4"))])
                  ELSE Some(TaskError(e))]
         /\ files' = (files \ {TempScript(t), TempDir(t)}) \cup
              (IF found THEN {StaticFile("videos", c.job, c.topic, ".mp4")}
               ELSE {})
  /\ UNCHANGED <<sessions, jobs, tasks, current, api_key, vad, issued, reported,
                 calls>>

\* ----------------------------------------------------------------- routes

\* POST /session/create (session_store.create_session)
CreateSession(initial_center_id, domain) ==
  /\ current = 0
  /\ \E session_id \in SessionIds \ DOMAIN sessions :
       sessions' = (session_id :>
                      create_session(session_id, initial_center_id, domain))
                   @@ sessions
  /\ UNCHANGED <<jobs, tasks, coros, current, files, api_key, vad, issued,
                 reported, calls>>

\* select_lesson with create_job and start_job moved in front of the node
\* lookup: a request for a node that is not in the session is answered 404
\* after its job was created and started
SelectLesson_eager(session_id, node_id) ==
  /\ current = 0
  /\ IF session_id \notin DOMAIN sessions
     THEN UNCHANGED <<jobs, tasks, coros, issued>>
     ELSE \E viz_job_id \in uuid4(Range(issued)) :
            /\ jobs' = create_job(jobs, viz_job_id)
            /\ issued' = Append(issued, viz_job_id)
            /\ start_job(viz_job_id, "generate_visualization_task", node_id,
                         node_id, <<>>)
  /\ UNCHANGED <<sessions, current, files, api_key, vad, reported, calls>>

\* POST /session/{session_id}/lesson/select: 404 for an unknown session or
\* a node that is not in the session, else create_job and start_job
SelectLesson(session_id, node_id) ==
  /\ current = 0
  /\ IF session_id \notin DOMAIN sessions
     THEN UNCHANGED <<jobs, tasks, coros, issued>>
     ELSE LET nodes == sessions[session_id].nodes
              match == {i \in DOMAIN nodes : nodes[i].id = node_id}
          IN  IF match = {}
              THEN UNCHANGED <<jobs, tasks, coros, issued>>
              ELSE LET node == nodes[CHOOSE i \in match :
                                        \A k \in match : i <= k]
                       lesson_content ==
                         IF node_id \in DOMAIN LESSON_CONTENT
                         THEN LESSON_CONTENT[node_id]
                         ELSE [title |-> node.label,
                               summary |-> <<"Learn about ", node.label,
                                 " and its applications in calculus.">>]
                   IN  \E viz_job_id \in uuid4(Range(issued)) :
                         /\ jobs' = create_job(jobs, viz_job_id)
                         /\ issued' = Append(issued, viz_job_id)
                         /\ start_job(viz_job_id,
                              "generate_visualization_task", node_id,
                              lesson_content.title, lesson_content.summary)
  /\ UNCHANGED <<sessions, current, files, api_key, vad, reported, calls>>

\* GET /viz/job/{job_id}: the response is get_viz_job(jobs, job_id)
Poll(job_id) ==
  /\ current = 0
  /\ LET response == get_viz_job(jobs, job_id)
     IN  reported' = IF response.code = 200 /\ response.status \in Terminal
                     THEN reported \cup {job_id} ELSE reported
  /\ UNCHANGED <<sessions, jobs, tasks, coros, current, files, api_key, vad,
                 issued, calls>>

\* ------------------------------------------------------------- vad.py

\* VoiceActivityDetector.__init__: the frame counts computed from the
\* durations and the initial state; heard is the tail of the frames given to
\* process_frame so far
VoiceActivityDetector(speech_start_frames, silence_ms, max_ms, preroll_ms) ==
  [speech_start_frames |-> speech_start_frames,
   silence_frames |-> silence_ms \div FrameDurationMs,
   max_utterance_frames |-> max_ms \div FrameDurationMs,
   preroll_frames |-> preroll_ms \div FrameDurationMs,
   is_speech |-> FALSE,
   speech_start_count |-> 0,
   silence_count |-> 0,
   utterance_buffer |-> <<>>,
   preroll_buffer |-> <<>>,
   ret |-> None,
   heard |-> <<>>]

\* deque(maxlen=n).append(x)
DequeAppend(d, x, n) ==
  LET a == Append(d, x)
  IN  IF Len(a) > n THEN SubSeq(a, Len(a) - n + 1, Len(a)) ELSE a

\* _finalize_utterance: (True, audio_bytes) and the state reset
finalize_utterance(v, buffer) ==
  [v EXCEPT !.is_speech = FALSE, !.speech_start_count = 0,
            !.silence_count = 0, !.utterance_buffer = <<>>,
            !.ret = Some(buffer)]

\* process_frame: the detector after the frame, ret being what the call
\* returned, None for (False, None) and Some(buffer) for (True, bytes)
process_frame(v, frame) ==
  LET w == [v EXCEPT !.preroll_buffer =
                        DequeAppend(v.preroll_buffer, frame,
                                    v.preroll_frames),
                     !.ret = None]
  IN  IF ~ v.is_speech
      THEN IF frame = "above"
           THEN IF v.speech_start_count + 1 >= v.speech_start_frames
                THEN [w EXCEPT !.speech_start_count = v.speech_start_count + 1,
                               !.is_speech = TRUE,
                               !.utterance_buffer = w.preroll_buffer]
                ELSE [w EXCEPT !.speech_start_count = v.speech_start_count + 1]
           ELSE [w EXCEPT !.speech_start_count = 0]
      ELSE LET buffer == Append(v.utterance_buffer, frame)
               count == IF frame = "below" THEN v.silence_count + 1 ELSE 0
           IN  IF frame = "below" /\ count >= v.silence_frames
               THEN finalize_utterance(w, buffer)
               ELSE IF Len(buffer) >= v.max_utterance_frames
               THEN finalize_utterance(w, buffer)
               ELSE [w EXCEPT !.utterance_buffer = buffer,
                              !.silence_count = count]

\* ------------------------------------------------------ gemini_image.py

\* topics, titles and summaries handed to generate_svg_diagram; a summary is
\* the sequence of its characters, one of them longer than both cuts
SvgTopicInputs ==
  {"limits", "fundamental_theorem", "proofs", "derivatives", "not_a_node",
   "Integrals"}
SvgTitleInputs == {"Limits", ""}
SvgSummaryInputs == {<<>>, <<"a", "b">>, [i \in 1..151 |-> "c"]}

\* the if/elif chain of generate_svg_diagram
SvgBranches ==
  << [topics |-> {"limits", "continuity"},
      generator |-> "generate_limit_svg"],
     [topics |-> {"implicit_differentiation"},
      generator |-> "generate_implicit_svg"],
     [topics |-> {"related_rates"},
      generator |-> "generate_related_rates_svg"],
     [topics |-> {"fundamental_theorem", "sequences", "lhopitals_rule"},
      generator |-> "generate_calculus_concept_svg"],
     [topics |-> {"loss_functions"},
      generator |-> "generate_loss_function_svg"],
     [topics |-> {"regularization"},
      generator |-> "generate_regularization_svg"],
     [topics |-> {"determinants"},
      generator |-> "generate_determinant_svg"],
     [topics |-> {"inverse_matrix"},
      generator |-> "generate_matrix_inverse_svg"],
     [topics |-> {"vector_spaces"},
      generator |-> "generate_vector_space_svg"],
     [topics |-> {"newtons_laws"},
      generator |-> "generate_newtons_laws_svg"],
     [topics |-> {"work"},
      generator |-> "generate_work_energy_svg"],
     [topics |-> {"rotation"},
      generator |-> "generate_rotation_svg"],
     [topics |-> {"hypothesis_testing"},
      generator |-> "generate_hypothesis_svg"],
     [topics |-> {"confidence_intervals"},
      generator |-> "generate_confidence_interval_svg"],
     [topics |-> {"expected_value", "variance"},
      generator |-> "generate_statistics_concept_svg"],
     [topics |-> {"sets", "logic"},
      generator |-> "generate_venn_diagram_svg"],
     [topics |-> {"combinatorics", "permutations", "combinations"},
      generator |-> "generate_combinatorics_svg"],
     [topics |-> {"proofs"},
      generator |-> "generate_proof_svg"] >>

\* the functions (title, summary) -> str the module defines
SvgGenerators ==
  {"generate_limit_svg", "generate_implicit_svg",
   "generate_related_rates_svg", "generate_generic_svg",
   "generate_calculus_concept_svg", "generate_loss_function_svg",
   "generate_regularization_svg", "generate_determinant_svg",
   "generate_matrix_inverse_svg", "generate_vector_space_svg",
   "generate_newtons_laws_svg", "generate_work_energy_svg",
   "generate_rotation_svg", "generate_hypothesis_svg",
   "generate_confidence_interval_svg", "generate_statistics_concept_svg",
   "generate_venn_diagram_svg", "generate_combinatorics_svg",
   "generate_proof_svg"}

\* the generators that put summary[:n] into the diagram, with their n
SummaryCut ==
  [generate_generic_svg |-> 150, generate_calculus_concept_svg |-> 80]

\* s[:n] of a string
Slice(s, n) == SubSeq(s, 1, IF Len(s) < n THEN Len(s) ELSE n)

\* one of the generate_*_svg f-strings: the diagram of the generator with
\* the title, and the cut summary where the generator shows it
svg(generator, title, summary) ==
  [diagram |-> generator,
   title |-> title,
   summary |-> IF generator \in DOMAIN SummaryCut
               THEN Some(Slice(summary, SummaryCut[generator]))
               ELSE None]

RECURSIVE FirstSvgBranch(_, _)
\* index of the first branch from i on that lists the topic
FirstSvgBranch(topic, i) ==
  IF i > Len(SvgBranches) THEN 0
  ELSE IF topic \in SvgBranches[i].topics THEN i
  ELSE FirstSvgBranch(topic, i + 1)

\* generate_svg_diagram as a dispatch without an else branch: a topic of no
\* family has no generator
generate_svg_diagram_strict(topic, title, summary) ==
  LET i == FirstSvgBranch(topic_lower(topic), 1)
  IN  IF i # 0 /\ SvgBranches[i].generator \in SvgGenerators
      THEN [pc |-> "returned",
            value |-> Some(svg(SvgBranches[i].generator, title, summary))]
      ELSE [pc |-> "raised", value |-> Some(<<"KeyError">>)]

\* generate_svg_diagram: what the call ends with, a diagram or an exception
\* (a branch naming a function the module does not define raises NameError)
generate_svg_diagram(topic, title, summary) ==
  LET i == FirstSvgBranch(topic_lower(topic), 1)
      generator == IF i = 0 THEN "generate_generic_svg"
                   ELSE SvgBranches[i].generator
  IN  IF generator \in SvgGenerators
      THEN [pc |-> "returned",
            value |-> Some(svg(generator, title, summary))]
      ELSE [pc |-> "raised", value |-> Some(<<"NameError">>)]

\* ---------------------------------------------------- manim_renderer.py

\* the if/elif chain of generate_manim_code_for_topic
ManimCodeBranches ==
  << [topics |-> {"integrals", "definite_integrals", "integration_by_parts",
                  "substitution"},
      generator |-> "generate_integral_animation"],
     [topics |-> {"derivatives"},
      generator |-> "generate_derivative_animation"],
     [topics |-> {"limits"},
      generator |-> "generate_limit_animation"],
     [topics |-> {"gradient_descent", "backpropagation"},
      generator |-> "generate_gradient_descent_animation"],
     [topics |-> {"linear_transformations", "matrices",
                  "matrix_multiplication"},
      generator |-> "generate_matrix_transform_animation"],
     [topics |-> {"forces", "momentum", "energy", "mechanics"},
      generator |-> "generate_physics_dynamics_animation"],
     [topics |-> {"bayes_theorem", "probability"},
      generator |-> "generate_probability_animation"],
     [topics |-> {"paths", "cycles", "connectivity", "recursion"},
      generator |-> "generate_graph_traversal_animation"] >>

\* the scene class each generate_*_animation defines in its f-string
GeneratorClass ==
  [generate_integral_animation |-> "IntegralVisualization",
   generate_derivative_animation |-> "DerivativeVisualization",
   generate_limit_animation |-> "LimitVisualization",
   generate_generic_animation |-> "GenericVisualization",
   generate_gradient_descent_animation |-> "GradientDescentVisualization",
   generate_matrix_transform_animation |-> "MatrixTransformVisualization",
   generate_physics_dynamics_animation |-> "PhysicsDynamicsVisualization",
   generate_probability_animation |-> "ProbabilityVisualization",
   generate_graph_traversal_animation |-> "GraphTraversalVisualization"]

\* `name in title` for the scene class names, on the titles the model uses
ClassNamesIn ==
  ("Integrals" :> {}) @@
  ("LimitVisualization explained" :> {"LimitVisualization"})

\* the text of the script: each generator's f-string defines one class,
\* names no other, and holds the title in Text("{title}", ...)
generate_manim_code_for_topic(topic, lesson_title) ==
  LET i == FirstMatch(ManimCodeBranches, topic_lower(topic), 1)
      generator == IF i = 0 THEN "generate_generic_animation"
                   ELSE ManimCodeBranches[i].generator
  IN  [class |-> GeneratorClass[generator], title |-> lesson_title]

\* `name in manim_code`
InCode(name, manim_code) ==
  name = manim_code.class \/ name \in ClassNamesIn[manim_code.title]

\* the names render_manim_video looks for, in the order of its if/elif
SceneClassOrder ==
  << "DerivativeVisualization", "LimitVisualization",
     "GradientDescentVisualization", "MatrixTransformVisualization",
     "PhysicsDynamicsVisualization", "ProbabilityVisualization",
     "GraphTraversalVisualization", "GenericVisualization" >>

RECURSIVE FirstInCode(_, _)
\* render_manim_video's scene_class: "IntegralVisualization" unless one of
\* the names of the chain is in the code, then the first such
FirstInCode(manim_code, i) ==
  IF i > Len(SceneClassOrder) THEN "IntegralVisualization"
  ELSE IF InCode(SceneClassOrder[i], manim_code) THEN SceneClassOrder[i]
  ELSE FirstInCode(manim_code, i + 1)

\* the script render_manim_video writes and the scene class it puts in cmd
render_command(topic, lesson_title) ==
  LET manim_code == generate_manim_code_for_topic(topic, lesson_title)
  IN  [defined |-> manim_code.class,
       scene_class |-> FirstInCode(manim_code, 1)]

\* ------------------------------------------------- manim_generator.py

\* `keyword in topic.lower()` for the keywords of manim_generator.py, on the
\* topic strings the model uses
KeywordsIn ==
  [derivatives |-> {"derivative"}, integrals |-> {"integral"},
   fundamental_theorem |-> {}, probability |-> {}, not_a_node |-> {},
   reaction_curve |-> {"reaction", "curve"},
   atomic_structure |-> {"atom"}]

\* in the order the dict is iterated; a file name is <<stem, suffix>>
PREGENERATED_VIDEO_CATEGORIES ==
  << [category |-> "calculus",
      keywords |-> {"calculus", "derivative", "integral", "integration",
                    "limit", "differentiat", "function", "curve", "tangent",
                    "slope", "math", "manim"},
      filename |-> <<"calculus_animation", ".mp4">>],
     [category |-> "chemistry",
      keywords |-> {"chemistry", "chemical", "atom", "molecule", "element",
                    "periodic", "bond", "reaction", "compound", "electron"},
      filename |-> <<"chemistry_animation", ".mp4">>],
     [category |-> "social",
      keywords |-> {"social", "society", "culture", "psychology", "sociology",
                    "behavior", "community", "network", "interaction",
                    "human"},
      filename |-> <<"social_animation", ".mp4">>] >>

\* the if/elif chain of get_scene_class_name
SceneClassBranches ==
  << [keywords |-> {"calculus", "derivative", "integral", "limit", "math"},
      scene_class |-> "CalculusAnimation"],
     [keywords |-> {"chemistry", "chemical", "atom", "molecule", "element"},
      scene_class |-> "ChemistryAnimation"],
     [keywords |-> {"social", "society", "psychology", "sociology"},
      scene_class |-> "SocialScienceAnimation"] >>

RECURSIVE FirstKeywordMatch(_, _, _)
\* index of the first entry from i on with a keyword that is in the topic
FirstKeywordMatch(table, topic, i) ==
  IF i > Len(table) THEN 0
  ELSE IF KeywordsIn[topic_lower(topic)] \cap table[i].keywords # {} THEN i
  ELSE FirstKeywordMatch(table, topic, i + 1)

get_scene_class_name(topic) ==
  LET i == FirstKeywordMatch(SceneClassBranches, topic, 1)
  IN  IF i = 0 THEN "DefaultAnimation" ELSE SceneClassBranches[i].scene_class

\* the scene class each entry of MANIM_TEMPLATES defines
TemplateClass ==
  [calculus |-> "CalculusAnimation", chemistry |-> "ChemistryAnimation",
   social |-> "SocialScienceAnimation", default |-> "DefaultAnimation"]

\* the if/elif chain of get_manim_template
TemplateBranches ==
  << [keywords |-> {"calculus", "derivative", "integral", "limit", "math"},
      template |-> "calculus"],
     [keywords |-> {"chemistry", "chemical", "atom", "molecule", "element"},
      template |-> "chemistry"],
     [keywords |-> {"social", "society", "psychology", "sociology"},
      template |-> "social"] >>

\* get_manim_template: the template of the topic's category with the title
\* filled in
get_manim_template(topic, title) ==
  LET i == FirstKeywordMatch(TemplateBranches, topic, 1)
      template == IF i = 0 THEN "default" ELSE TemplateBranches[i].template
  IN  [class |-> TemplateClass[template], title |-> title]

\* the script generate_manim_video writes and the scene class it puts in
\* the command
generate_command(topic, title) ==
  [defined |-> get_manim_template(topic, title).class,
   scene_class |-> get_scene_class_name(topic)]

\* VIDEOS_DIR / filename for a file name without a job id in front; the
\* second component of a file is the job id its name starts with, else 0
PregeneratedFile(filename) == <<"videos", 0, filename[1], filename[2]>>

PregeneratedUrl(filename) == <<"/static/videos/", filename[1], filename[2]>>

RECURSIVE FirstCached(_, _, _)
\* the loop of find_cached_video from the i-th category on: the first
\* category with a keyword in the topic whose video file exists
FirstCached(fs, topic, i) ==
  IF i > Len(PREGENERATED_VIDEO_CATEGORIES) THEN None
  ELSE LET config == PREGENERATED_VIDEO_CATEGORIES[i]
       IN  IF /\ KeywordsIn[topic_lower(topic)] \cap config.keywords # {}
              /\ PregeneratedFile(config.filename) \in fs
           THEN Some(PregeneratedUrl(config.filename))
           ELSE FirstCached(fs, topic, i + 1)

find_cached_video(fs, topic) == FirstCached(fs, topic, 1)

\* f"{topic}_animation" for the scenes of pregenerate_videos.py
AnimationStem ==
  [calculus |-> "calculus_animation", chemistry |-> "chemistry_animation",
   social |-> "social_animation"]

\* pregenerate_videos.generate_video run as a script of its own: skips a
\* video that exists, else renders in a temporary directory it removes and
\* copies the video to VIDEOS_DIR / f"{topic}_animation.mp4" when it got one
generate_video(topic, rendered) ==
  /\ files' = IF rendered
              THEN files \cup {<<"videos", 0, AnimationStem[topic], ".mp4">>}
              ELSE files
  /\ UNCHANGED <<sessions, jobs, tasks, coros, current, api_key, vad, issued,
                 reported, calls>>

\* a call of one of manim_generator's functions: store is the content of
\* the disk when the call looked for a cached video, after is the content it
\* left behind
Call(func, job_id, topic, pc, value, store) ==
  [func |-> func, job |-> job_id, topic |-> topic, pc |-> pc,
   outcome |-> "none", value |-> value, store |-> store, after |-> store]

\* a call is inside the blocking subprocess.run
Busy == \E c \in DOMAIN calls : calls[c].pc = "subprocess"

FindCachedVideo(topic) ==
  /\ current = 0 /\ ~ Busy
  /\ Len(calls) < MaxCalls
  /\ calls' = Append(calls, Call("find_cached_video", 0, topic, "returned",
                                 find_cached_video(files, topic), files))
  /\ UNCHANGED <<sessions, jobs, tasks, coros, current, files, api_key, vad,
                 issued, reported>>

\* tempfile.mkdtemp(prefix="manim_") of the c-th call and its scene.py
ManimTempDir(c) == <<"tmp", c, "manim_", "">>
ManimScript(c) == <<"tmp", c, "manim_/scene", ".py">>

\* generate_manim_video up to the call of subprocess.run: returns at once
\* when VIDEOS_DIR / f"{job_id}_{topic}.mp4" exists (no model topic has a
\* hyphen, which video_id would replace as well)
GenerateManimVideo(job_id, topic) ==
  /\ current = 0 /\ ~ Busy
  /\ Len(calls) < MaxCalls
  /\ LET c == Len(calls) + 1
         output_path == StaticFile("videos", job_id, topic, ".mp4")
     IN  IF output_path \in files
         THEN /\ calls' = Append(calls,
                   Call("generate_manim_video", job_id, topic, "returned",
                        Some(<<TRUE, StaticUrl("videos", job_id, topic,
                                               ".mp4")>>), files))
              /\ UNCHANGED files
         ELSE /\ calls' = Append(calls,
                   Call("generate_manim_video", job_id, topic, "subprocess",
                        None, files))
              /\ files' = files \cup {ManimTempDir(c), ManimScript(c)}
  /\ UNCHANGED <<sessions, jobs, tasks, coros, current, api_key, vad, issued,
                 reported>>

\* generate_manim_video from subprocess.run(cmd, timeout=120) to its end:
\* (True, url) after copying the video, else (False, message); the finally
\* clause removes the temporary directory
ManimSubprocess(c, outcome) ==
  /\ c \in DOMAIN calls
  /\ calls[c].pc = "subprocess"
  /\ LET job_id == calls[c].job
         topic == calls[c].topic
         found == outcome \in {"480p15", "720p30", "1080p60"}
         e == CASE outcome = "nonzero" -> <<"Manim rendering failed: ">>
                [] outcome = "timeout" -> <<"Manim rendering timed out">>
                [] outcome = "not_installed" ->
                     <<"No such file or directory: manim">>
                [] OTHER -> <<"No video file generated">>
         left == (files \ {ManimTempDir(c), ManimScript(c)}) \cup
                 (IF found THEN {StaticFile("videos", job_id, topic, ".mp4")}
                  ELSE {})
     IN  /\ files' = left
         /\ calls' = [calls EXCEPT
              ![c].pc = "returned",
              ![c].outcome = outcome,
              ![c].value = Some(IF found
                  THEN <<TRUE, StaticUrl("videos", job_id, topic, ".mp4")>>
                  ELSE <<FALSE, e>>),
              ![c].after = left]
  /\ UNCHANGED <<sessions, jobs, tasks, coros, current, api_key, vad, issued,
                 reported>>

\* --------------------------------------------------------- specifications

\* the backend: its routes and the background tasks they start
Next ==
  \/ \E c \in CenterInputs, d \in DomainInputs : CreateSession(c, d)
  \/ \E s \in AllSessionIds, n \in NodeInputs : SelectLesson(s, n)
  \/ \E j \in AllJobIds : Poll(j)
  \/ \E t \in 1..MaxJobs : ExecBegin(t)
  \/ \E t \in 1..MaxJobs : GenerateVisualization(t)
  \/ \E t \in 1..MaxJobs, o \in SubprocessOutcomes : Subprocess(t, o)
  \/ \E t \in 1..MaxJobs : ExecEnd(t)

Spec == Init /\ [][Next]_vars

\* the event loop runs every task that is ready, and subprocess.run returns
\* when the child has ended or after its timeout
Fairness ==
  \A t \in 1..MaxJobs :
    /\ WF_vars(ExecBegin(t))
    /\ WF_vars(GenerateVisualization(t))
    /\ WF_vars(\E o \in SubprocessOutcomes : Subprocess(t, o))
    /\ WF_vars(ExecEnd(t))

FairSpec == Spec /\ Fairness

\* the JobManager under arbitrary callers, each with a unit of work that may
\* suspend, return or raise
NextMgr ==
  \/ CreateJob
  \/ \E j \in AllJobIds : StartJob(j)
  \/ \E j \in AllJobIds, s \in StageInputs : UpdateStage(j, s)
  \/ \E j \in AllJobIds, r \in ResultInputs : CompleteJob(j, r)
  \/ \E j \in AllJobIds, e \in ErrorInputs : FailJob(j, e)
  \/ \E t \in 1..MaxTasks : ExecBegin(t)
  \/ \E t \in 1..MaxTasks : WorkAwait(t)
  \/ \E t \in 1..MaxTasks : WorkResume(t)
  \/ \E t \in 1..MaxTasks, r \in ResultInputs : WorkReturn(t, r)
  \/ \E t \in 1..MaxTasks, e \in ErrorInputs : WorkRaise(t, e)
  \/ \E t \in 1..MaxTasks : ExecEnd(t)

SpecMgr == Init /\ [][NextMgr]_vars

\* the backend with pregenerate_videos.py run beside it
NextPregen ==
  \/ Next
  \/ \E c \in PregenInputs, r \in BOOLEAN : generate_video(c, r)

SpecPregen == Init /\ [][NextPregen]_vars

\* manim_generator under direct callers on the event loop, with
\* pregenerate_videos.py run beside it
NextGen ==
  \/ \E c \in PregenInputs, r \in BOOLEAN : generate_video(c, r)
  \/ \E tp \in VideoTopicInputs : FindCachedVideo(tp)
  \/ \E j \in JobIds, tp \in VideoTopicInputs : GenerateManimVideo(j, tp)
  \/ \E c \in 1..MaxCalls, o \in SubprocessOutcomes : ManimSubprocess(c, o)

SpecGen == Init /\ [][NextGen]_vars

\* find_cached_video under direct callers, with pregenerate_videos.py run
\* beside it for the categories of its SCENES
NextCache ==
  \/ \E c \in CachePregenInputs, r \in BOOLEAN : generate_video(c, r)
  \/ \E tp \in CacheTopicInputs : FindCachedVideo(tp)

SpecCache == Init /\ [][NextCache]_vars

\* a direct call of gemini_image.generate_svg_diagram
GenerateSvgDiagram(topic, title, summary) ==
  /\ current = 0 /\ ~ Busy
  /\ Len(calls) < MaxCalls
  /\ LET r == generate_svg_diagram(topic, title, summary)
     IN  calls' = Append(calls, Call("generate_svg_diagram", 0, topic, r.pc,
                                     r.value, files))
  /\ UNCHANGED <<sessions, jobs, tasks, coros, current, files, api_key, vad,
                 issued, reported>>

\* generate_svg_diagram under direct callers
NextSvg ==
  \E tp \in SvgTopicInputs, ti \in SvgTitleInputs, su \in SvgSummaryInputs :
    GenerateSvgDiagram(tp, ti, su)

SpecSvg == Init /\ [][NextSvg]_vars

\* a call of session_store.update_session_center
UpdateSessionCenter(session_id, new_center_id) ==
  /\ Len(calls) < MaxCalls
  /\ LET r == update_session_center(sessions, session_id, new_center_id)
     IN  /\ sessions' = r.sessions
         /\ calls' = Append(calls, Call("update_session_center", session_id,
                              new_center_id, "returned", r.value, files))
  /\ UNCHANGED <<jobs, tasks, coros, current, files, api_key, vad, issued,
                 reported>>

\* a call of session_store.switch_domain
SwitchDomain(session_id, new_domain) ==
  /\ Len(calls) < MaxCalls
  /\ LET r == switch_domain(sessions, session_id, new_domain)
     IN  /\ sessions' = r.sessions
         /\ calls' = Append(calls, Call("switch_domain", session_id,
                              new_domain, "returned", r.value, files))
  /\ UNCHANGED <<jobs, tasks, coros, current, files, api_key, vad, issued,
                 reported>>

\* the session store under its callers
NextSession ==
  \/ \E c \in CenterInputs, d \in DomainInputs : CreateSession(c, d)
  \/ \E s \in AllSessionIds, n \in NewCenterInputs :
       UpdateSessionCenter(s, n)
  \/ \E s \in AllSessionIds, d \in NewDomainInputs : SwitchDomain(s, d)

SpecSession == Init /\ [][NextSession]_vars

\* render_manim_video called directly, up to the command it builds
RenderCommand(topic, lesson_title) ==
  /\ Len(calls) < MaxCalls
  /\ calls' = Append(calls, Call("render_manim_video", 0, topic, "returned",
                               Some(render_command(topic, lesson_title)),
                               files))
  /\ UNCHANGED <<sessions, jobs, tasks, coros, current, files, api_key, vad,
                 issued, reported>>

\* generate_manim_video called directly, up to the command it builds
GenerateCommand(topic, title) ==
  /\ Len(calls) < MaxCalls
  /\ calls' = Append(calls, Call("generate_manim_video", 0, topic,
                               "returned",
                               Some(generate_command(topic, title)), files))
  /\ UNCHANGED <<sessions, jobs, tasks, coros, current, files, api_key, vad,
                 issued, reported>>

\* the two renderers under direct callers, as far as their commands
NextScene ==
  \/ \E tp \in SceneTopicInputs, ti \in SceneTitleInputs :
       RenderCommand(tp, ti)
  \/ \E tp \in SceneTopicInputs, ti \in SceneTitleInputs :
       GenerateCommand(tp, ti)

SpecScene == Init /\ [][NextScene]_vars

\* the state after VoiceActivityDetector(...) with the arguments of a caller
InitVad ==
  /\ sessions = <<>>
  /\ jobs = <<>>
  /\ tasks = <<>>
  /\ coros = <<>>
  /\ current = 0
  /\ files = {}
  /\ api_key = FALSE
  /\ vad \in {VoiceActivityDetector(a, b, c, d) :
                a \in SpeechStartInputs, b \in SilenceDurationInputs,
                c \in MaxUtteranceMsInputs, d \in PrerollMsInputs}
  /\ issued = <<>>
  /\ reported = {}
  /\ calls = <<>>

\* one call of process_frame
ProcessFrame(frame) ==
  /\ vad' = [process_frame(vad, frame) EXCEPT
               !.heard = DequeAppend(vad.heard, frame, MaxHeard)]
  /\ UNCHANGED <<sessions, jobs, tasks, coros, current, files, api_key,
                 issued, reported, calls>>

\* the detector fed frame after frame
NextVad == \E frame \in FrameInputs : ProcessFrame(frame)

SpecVad == InitVad /\ [][NextVad]_vars

\* ------------------------------------------------------------ properties

Started(j) == \E t \in DOMAIN coros : coros[t].job = j

\* the response a poll of job id j gets in the current state
Answer(j) == get_viz_job(jobs, j)

StatusRank ==
  [pending |-> 0, running |-> 1, done |-> 2, error |-> 2]

\* C1: once a poll of a job has answered done or error, every poll of that
\* job that the server can answer gets done or error again, never pending or
\* running (jobs created and started by select_lesson).
C1_PollsMonotonic ==
  \A j \in reported :
    current = 0 => Answer(j).code = 200 /\ Answer(j).status \in Terminal

\* a poll has answered done for one job while another job is still pending
C1_Witness ==
  \E j \in reported, k \in DOMAIN jobs :
    jobs[j].status = "done" /\ jobs[k].status = "pending"

\* C2: under any sequence of JobManager operations the status of a job never
\* moves backwards along pending, running, done/error, and never leaves done
\* or error.
C2_StatusMonotonic ==
  [][\A j \in DOMAIN jobs :
       /\ StatusRank[jobs'[j].status] >= StatusRank[jobs[j].status]
       /\ jobs[j].status \in Terminal => jobs'[j].status = jobs[j].status]_vars

\* C3: a job whose render subprocess failed or timed out ends done with a
\* diagram artifact of the SVG pipeline, not in error.
C3_RenderFailureFallsBack ==
  \A t \in DOMAIN coros :
    (coros[t].pc = "finished" /\ coros[t].outcome \in {"nonzero", "timeout"})
      => /\ jobs[coros[t].job].status = "done"
         /\ jobs[coros[t].job].result[1].type = "image"

\* C4: a job whose modality resolves to three_spec or image never ends in
\* error, also when GOOGLE_API_KEY is missing.
C4_SvgClassNeverErrors ==
  \A t \in DOMAIN coros :
    (coros[t].func = "generate_visualization_task"
       /\ select_viz_modality(coros[t].topic) \in {"three_spec", "image"}
       /\ coros[t].job \in DOMAIN jobs)
      => jobs[coros[t].job].status # "error"

\* C5: when the unit of work of a started job raises, execute_job ends with
\* the job in status error and the message in its error field, and the job
\* stays so; a poll of a known job id is answered 200 with one of the four
\* statuses and only an unknown job id is answered 404.
C5_FailuresCaptured ==
  /\ [][\A t \in DOMAIN coros :
          (coros[t].pc = "raised" /\ coros'[t].pc # "raised")
            => /\ coros'[t].pc = "finished"
               /\ jobs'[coros[t].job].status = "error"
               /\ jobs'[coros[t].job].error = coros[t].value]_vars
  /\ [][\A j \in DOMAIN jobs :
          jobs[j].status = "error"
            => jobs'[j].status = "error" /\ jobs'[j].error = jobs[j].error]_vars
  /\ [](\A j \in AllJobIds :
          IF j \in DOMAIN jobs
          THEN /\ Answer(j).code = 200
               /\ Answer(j).status \in {"pending", "running", "done", "error"}
               /\ jobs[j].status = "error"
                    => Answer(j).message = jobs[j].error
          ELSE Answer(j).code = 404)

\* a job ended in error because the image generator had no API key
C5_Witness ==
  \E j \in DOMAIN jobs :
    /\ jobs[j].status = "error"
    /\ jobs[j].error =
         Some(<<"Visualization generation failed: ",
                "GOOGLE_API_KEY not configured">>)
    /\ ~ Started(j) \/ \A t \in DOMAIN coros :
                         coros[t].job = j => coros[t].pc = "finished"

\* C6: complete_job or fail_job called on a job that is done or error leaves
\* the job's status, result and error as they were.
C6_TerminalCallsIgnored ==
  [][\A j \in DOMAIN jobs :
       (/\ jobs[j].status \in Terminal
        /\ \/ \E r \in ResultInputs : CompleteJob(j, r)
           \/ \E e \in ErrorInputs : FailJob(j, e))
         => jobs'[j] = jobs[j]]_vars

\* C7: once start_job has returned for a job, the job's record is no longer
\* pending.
C7_StartedNotPending ==
  \A j \in DOMAIN jobs : Started(j) => jobs[j].status # "pending"

\* C8: while a unit of work waits for the render subprocess, polls can be
\* answered and the other scheduled units of work can begin.
C8_SubprocessBlocksNothing ==
  \A t \in DOMAIN coros :
    coros[t].pc = "subprocess"
      => /\ ENABLED (\E j \in AllJobIds : Poll(j))
         /\ \A u \in DOMAIN coros :
              coros[u].pc = "scheduled" => ENABLED ExecBegin(u)

\* C9: every job for which start_job was called reaches done or error, when
\* the loop keeps running its tasks and subprocess.run returns.
C9_StartedJobsFinish ==
  \A j \in JobIds :
    Started(j) ~> (j \in DOMAIN jobs /\ jobs[j].status \in Terminal)

\* a started job ended in error after its render subprocess timed out
C9_Witness ==
  \E t \in DOMAIN coros :
    /\ coros[t].outcome = "timeout"
    /\ coros[t].pc = "finished"
    /\ jobs[coros[t].job].status = "error"

\* C10: every create_job call returns an id no earlier call returned, adds
\* one record under it with status pending and leaves the existing records
\* as they were, so N calls leave N distinct records.
C10_CreateJobFresh ==
  /\ [][Len(issued') = Len(issued) + 1
         => LET id == issued'[Len(issued')]
            IN  /\ id \notin Range(issued)
                /\ id \notin DOMAIN jobs
                /\ DOMAIN jobs' = DOMAIN jobs \cup {id}
                /\ jobs'[id].status = "pending"
                /\ jobs'[id].result = None /\ jobs'[id].error = None
                /\ \A j \in DOMAIN jobs : jobs'[j] = jobs[j]]_vars
  /\ [](Cardinality(DOMAIN jobs) = Len(issued))

\* create_job was called MaxJobs times, the first job has since ended
C10_Witness ==
  /\ Len(issued) = MaxJobs
  /\ Cardinality(DOMAIN jobs) = MaxJobs
  /\ \E j \in DOMAIN jobs : jobs[j].status \in Terminal

\* C11: start_job with a job id that is not in the registry is a no-op: no
\* record is created for the id, its unit of work is never executed, and
\* once the scheduled step of execute_job has run, the task map has no entry
\* for the id, as before the call.
C11_UnknownStartNoOp ==
  /\ \A t \in DOMAIN coros :
       coros[t].job \notin DOMAIN jobs
         => coros[t].pc \in {"scheduled", "finished"}
  /\ \A j \in DOMAIN tasks :
       j \notin DOMAIN jobs => coros[tasks[j]].pc # "finished"

\* C12: update_stage called on a job that is done or error leaves the job's
\* stage label as it was.
C12_TerminalStageKept ==
  [][\A j \in DOMAIN jobs :
       (/\ jobs[j].status \in Terminal
        /\ \E s \in StageInputs : UpdateStage(j, s))
         => jobs'[j].stage = jobs[j].stage]_vars

\* C13: in every state of the job registry a job has a result only when its
\* status is done and an error only when its status is error.
C13_ResultErrorMatchStatus ==
  \A j \in DOMAIN jobs :
    /\ jobs[j].result # None => jobs[j].status = "done"
    /\ jobs[j].error # None => jobs[j].status = "error"

\* C14: a JobManager operation or a step of the background execution for job
\* a leaves the record of every other job as it was, in every interleaving
\* of the running jobs; create_job leaves every existing record as it was.
C14_OnlyOwnRecordChanges ==
  [][/\ \A a \in AllJobIds :
          (\/ StartJob(a)
           \/ \E s \in StageInputs : UpdateStage(a, s)
           \/ \E r \in ResultInputs : CompleteJob(a, r)
           \/ \E e \in ErrorInputs : FailJob(a, e)
           \/ \E t \in DOMAIN coros :
                /\ coros[t].job = a
                /\ \/ ExecBegin(t) \/ ExecEnd(t)
                   \/ WorkAwait(t) \/ WorkResume(t)
                   \/ \E r \in ResultInputs : WorkReturn(t, r)
                   \/ \E e \in ErrorInputs : WorkRaise(t, e)
                   \/ GenerateVisualization(t)
                   \/ \E o \in SubprocessOutcomes : Subprocess(t, o))
            => \A j \in DOMAIN jobs \ {a} : jobs'[j] = jobs[j]
     /\ CreateJob => \A j \in DOMAIN jobs : jobs'[j] = jobs[j]]_vars

\* two started jobs interleave: one has ended done while the unit of work of
\* the other is suspended, its job still running
C14_Witness ==
  \E t, u \in DOMAIN coros :
    /\ coros[t].job # coros[u].job
    /\ coros[t].job \in DOMAIN jobs /\ coros[u].job \in DOMAIN jobs
    /\ coros[t].pc = "finished" /\ jobs[coros[t].job].status = "done"
    /\ coros[u].pc = "awaiting" /\ jobs[coros[u].job].status = "running"

RenderFailures == {"nonzero", "timeout", "no_file"}

\* C15: after a video render call has returned or raised, on success, nonzero
\* exit, timeout or missing output file, the script file and the temporary
\* output directory it created are no longer on disk.
C15_NoWorkspaceLeft ==
  /\ \A t \in DOMAIN coros :
       coros[t].outcome # "none"
         => TempScript(t) \notin files /\ TempDir(t) \notin files
  /\ \A c \in DOMAIN calls :
       (calls[c].func = "generate_manim_video" /\ calls[c].pc = "returned")
         => ManimTempDir(c) \notin files /\ ManimScript(c) \notin files

\* one render call has raised after a failure of the subprocess and another
\* has returned a video
C15_Witness ==
  \E t, u \in DOMAIN coros :
    /\ coros[t].outcome \in RenderFailures
    /\ coros[u].outcome \in {"480p15", "720p30", "1080p60"}
    /\ \A f \in files : f[1] # "tmp"

\* C16: a video-modality generation for a topic whose category has a
\* pre-rendered video in the store returns the locator of that video, marked
\* cached, and does not go on to the render subprocess.
C16_CachedVideoServed ==
  [][\A t \in DOMAIN coros :
       (/\ GenerateVisualization(t)
        /\ select_viz_modality(coros[t].topic) = "manim_mp4"
        /\ find_cached_video(files, coros[t].topic) # None)
         => /\ coros'[t].pc = "returned"
            /\ coros'[t].value[1].type = "manim_mp4"
            /\ coros'[t].value[1].url =
                 find_cached_video(files, coros[t].topic)
            /\ "cached" \in DOMAIN coros'[t].value[1]
            /\ coros'[t].value[1].cached]_vars

\* C17: without GOOGLE_API_KEY, every generation for topic derivatives ends
\* with the same three_spec artifact, the derivative_graph scene of
\* get_derivative_graph_spec, marked cached = false.
C17_DerivativesSpec ==
  \A t \in DOMAIN coros :
    (/\ ~ api_key
     /\ topic_lower(coros[t].topic) = "derivatives"
     /\ coros[t].func = "generate_visualization_task"
     /\ coros[t].pc = "finished")
      => LET job == jobs[coros[t].job]
         IN  /\ job.status = "done"
             /\ job.result[1].type = "three_spec"
             /\ job.result[1].spec =
                  Some([sceneType |-> "derivative_graph",
                        params |-> <<"get_derivative_graph_spec",
                                     "derivatives">>])
             /\ "cached" \in DOMAIN job.result[1]
             /\ job.result[1].cached = FALSE

\* C18: the artifact of a job that ended done has the type of the modality
\* the dispatcher ran for the job's topic; a three_spec artifact has a spec
\* and no url, a manim_mp4 or image artifact has a url and no spec, and the
\* file behind the url was produced.
C18_ArtifactTypeConsistent ==
  \A t \in DOMAIN coros :
    (/\ coros[t].func = "generate_visualization_task"
     /\ coros[t].job \in DOMAIN jobs
     /\ jobs[coros[t].job].status = "done")
      => LET c == coros[t]
             a == jobs[c.job].result[1]
         IN  /\ a.type = select_viz_modality(c.topic)
             /\ a.type \in {"three_spec", "manim_mp4", "image"}
             /\ a.type = "three_spec"
                  => /\ a.spec # None /\ a.url = None
                     /\ c.outcome = "none"
             /\ a.type = "manim_mp4"
                  => /\ a.url # None /\ a.spec = None
                     /\ c.outcome \in {"480p15", "720p30", "1080p60"}
                     /\ StaticFile("videos", c.job, c.topic, ".mp4") \in files
             /\ a.type = "image"
                  => /\ a.url # None /\ a.spec = None
                     /\ c.outcome = "none"
                     /\ StaticFile("images", c.job, c.topic, ".svg") \in files

\* one job has ended done with a video and another with a diagram
C18_Witness ==
  \E j, k \in DOMAIN jobs :
    /\ jobs[j].status = "done" /\ jobs[j].result[1].type = "manim_mp4"
    /\ jobs[k].status = "done" /\ jobs[k].result[1].type = "image"

\* the category a topic classifies into: the first category of
\* PREGENERATED_VIDEO_CATEGORIES with a keyword in the topic, and the scene
\* class generate_manim_video renders for it
VideoCategory(topic) ==
  <<FirstKeywordMatch(PREGENERATED_VIDEO_CATEGORIES, topic, 1),
    get_scene_class_name(topic)>>

\* C19: of two cache lookups of the same kind for topics of the same
\* category, with the store unchanged between them, the second returns what
\* the first returned when that was a video, and it is a cache hit (renders
\* nothing).
C19_CacheIdempotent ==
  \A i, k \in DOMAIN calls :
    (/\ i < k
     /\ calls[i].func = calls[k].func
     /\ calls[i].pc = "returned"
     /\ VideoCategory(calls[i].topic) = VideoCategory(calls[k].topic)
     /\ VideoCategory(calls[i].topic)[1] # 0
     /\ calls[k].store = calls[i].after)
      => IF calls[i].func = "find_cached_video"
         THEN calls[k].value = calls[i].value
         ELSE calls[i].value[1][1]
                => /\ calls[k].pc = "returned"
                   /\ calls[k].value = calls[i].value
                   /\ calls[k].after = calls[k].store

\* C20: a render call whose subprocess exited nonzero, timed out or left no
\* output file under any probed quality folder reports the failure (raises,
\* or returns success False), hands out no video locator and leaves no video
\* of the call in the static store.
C20_RenderFailureReported ==
  /\ \A t \in DOMAIN coros :
       coros[t].outcome \in RenderFailures
         => /\ coros[t].pc \in {"raised", "finished"}
            /\ coros[t].pc = "raised"
                 => coros[t].value[1][1] = "Visualization generation failed: "
            /\ jobs[coros[t].job].result = None
            /\ StaticFile("videos", coros[t].job, coros[t].topic, ".mp4")
                 \notin files
  /\ \A c \in DOMAIN calls :
       calls[c].outcome \in RenderFailures
         => /\ calls[c].value[1][1] = FALSE
            /\ StaticFile("videos", calls[c].job, calls[c].topic, ".mp4")
                 \notin calls[c].after

\* a render call has raised after each kind of failure, its job not yet
\* marked
C20_Witness ==
  \E t \in DOMAIN coros :
    /\ coros[t].outcome \in RenderFailures
    /\ coros[t].pc = "raised"
    /\ jobs[coros[t].job].status = "running"

\* C21: the render child process is run at most once per render call and at
\* most once per job: a render call whose subprocess.run has ended, with
\* whatever outcome, is not at subprocess.run again, and no job has two
\* render calls that reached subprocess.run
Invoked(c) == c.pc = "subprocess" \/ c.outcome # "none"

C21_SubprocessOnce ==
  /\ \A t \in DOMAIN coros :
       coros[t].outcome # "none" => coros[t].pc # "subprocess"
  /\ \A c \in DOMAIN calls :
       calls[c].outcome # "none" => calls[c].pc # "subprocess"
  /\ \A t, u \in DOMAIN coros :
       (/\ coros[t].job = coros[u].job
        /\ Invoked(coros[t])
        /\ Invoked(coros[u])) => t = u

C21_Witness ==
  \E t \in DOMAIN coros :
    /\ coros[t].outcome \in RenderFailures
    /\ coros[t].pc = "finished"
    /\ jobs[coros[t].job].status = "error"

\* C22: the video find_cached_video returns for a topic is the one of the
\* first category, in the order of the table, that has a keyword in the
\* topic, whatever files the store holds
C22_FirstCategoryWins ==
  \A c \in DOMAIN calls :
    (calls[c].func = "find_cached_video" /\ calls[c].value # None) =>
      LET i == FirstKeywordMatch(PREGENERATED_VIDEO_CATEGORIES,
                                 calls[c].topic, 1)
      IN  /\ i # 0
          /\ calls[c].value =
               Some(PregeneratedUrl(PREGENERATED_VIDEO_CATEGORIES[i].filename))

\* C23: generate_svg_diagram is total: every call of it, for whatever topic,
\* title and summary, returns a diagram and raises nothing, and a topic of
\* none of the known families gets the generic diagram
SvgFamilies == UNION {SvgBranches[i].topics : i \in DOMAIN SvgBranches}

C23_SvgDiagramTotal ==
  \A c \in DOMAIN calls :
    calls[c].func = "generate_svg_diagram" =>
      /\ calls[c].pc = "returned"
      /\ calls[c].value # None
      /\ calls[c].value[1].diagram \in SvgGenerators
      /\ topic_lower(calls[c].topic) \notin SvgFamilies =>
           calls[c].value[1].diagram = "generate_generic_svg"

C23_Witness ==
  \E c, d \in DOMAIN calls :
    /\ calls[c].func = "generate_svg_diagram"
    /\ calls[c].topic = "not_a_node"
    /\ calls[c].value[1].diagram = "generate_generic_svg"
    /\ calls[c].value[1].summary = Some([i \in 1..150 |-> "c"])
    /\ calls[d].func = "generate_svg_diagram"
    /\ calls[d].topic = "proofs"
    /\ calls[d].value[1].diagram = "generate_proof_svg"

\* C24: every structured-scene spec that has become a job result is one that
\* validate_three_spec accepts, and for every topic the spec
\* get_three_spec_for_topic returns has a sceneType of the SceneType
\* enumeration and a params payload
ThreeTopics ==
  UNION {ThreeBranches[i].topics : i \in DOMAIN ThreeBranches}
    \cup NodeInputs \cup VideoTopicInputs \cup DOMAIN LowerUnderscore

EveryTopicSpecValid ==
  \A topic \in ThreeTopics :
    LET spec == get_three_spec_for_topic(topic)
    IN  /\ validate_three_spec(spec)
        /\ spec.sceneType \in SceneType
        /\ "params" \in DOMAIN spec

C24_SpecsValid ==
  /\ \A j \in DOMAIN jobs :
       (/\ jobs[j].status = "done"
        /\ jobs[j].result[1].type = "three_spec")
         => /\ jobs[j].result[1].spec # None
            /\ validate_three_spec(jobs[j].result[1].spec[1])
  /\ EveryTopicSpecValid

C24_Witness ==
  \E j \in DOMAIN jobs :
    /\ jobs[j].status = "done"
    /\ jobs[j].result[1].type = "three_spec"
    /\ jobs[j].result[1].spec[1].sceneType = "derivative_graph"

\* C25: a lesson selection that is accepted creates exactly one job and
\* starts it exactly once, and when the route returns the job's id the unit
\* of work has not run (the job is pending, its coroutine only scheduled); a
\* selection answered 404, for an unknown session or a node that is not in
\* the session, creates no job and starts nothing
Rejected(session_id, node_id) ==
  \/ session_id \notin DOMAIN sessions
  \/ \A i \in DOMAIN sessions[session_id].nodes :
       sessions[session_id].nodes[i].id # node_id

OneJobCreatedAndStarted ==
  LET id == issued'[Len(issued')]
      t == Len(coros')
  IN  /\ issued' = Append(issued, id)
      /\ id \notin DOMAIN jobs
      /\ DOMAIN jobs' = DOMAIN jobs \cup {id}
      /\ \A j \in DOMAIN jobs : jobs'[j] = jobs[j]
      /\ jobs'[id].status = "pending"
      /\ t = Len(coros) + 1
      /\ \A u \in DOMAIN coros : coros'[u] = coros[u]
      /\ coros'[t].job = id
      /\ coros'[t].pc = "scheduled"
      /\ DOMAIN tasks' = DOMAIN tasks \cup {id}
      /\ tasks'[id] = t
      /\ \A j \in DOMAIN tasks : tasks'[j] = tasks[j]

C25_OneJobPerRequest ==
  [][/\ \A s \in AllSessionIds, n \in NodeInputs :
          SelectLesson(s, n) =>
            IF Rejected(s, n)
            THEN UNCHANGED <<jobs, tasks, coros, issued>>
            ELSE OneJobCreatedAndStarted
     /\ issued' # issued => OneJobCreatedAndStarted]_vars

\* a selection has been accepted and its job is still pending, in a state
\* where a selection of a node outside the session can be made too
C25_Witness ==
  /\ Len(issued) = 1
  /\ jobs[issued[1]].status = "pending"
  /\ coros[1].job = issued[1]
  /\ coros[1].pc = "scheduled"
  /\ \E s \in DOMAIN sessions, n \in NodeInputs : Rejected(s, n)

\* C26: in every stored session center_id is the id of the first node of
\* the session's node list and the source of every link, after
\* create_session, update_session_center and switch_domain with any
\* arguments
C26_CenterIsFirstNode ==
  \A s \in DOMAIN sessions :
    /\ Len(sessions[s].nodes) >= 1
    /\ sessions[s].nodes[1].id = sessions[s].center_id
    /\ \A i \in DOMAIN sessions[s].links :
         sessions[s].links[i].source = sessions[s].center_id

\* C30: a rejected session update changes nothing: update_session_center
\* with an unknown session id or a node id that is not in the graph of the
\* session's domain, and switch_domain with an unknown session id or an
\* unknown domain, return None and leave every stored session as it was
C30_RejectedUpdateNoChange ==
  [][\A s \in AllSessionIds :
       /\ \A n \in NewCenterInputs :
            (/\ UpdateSessionCenter(s, n)
             /\ \/ s \notin DOMAIN sessions
                \/ n \notin DOMAIN get_knowledge_graph_for_domain(
                                     sessions[s].domain))
              => /\ calls'[Len(calls')].value = None
                 /\ sessions' = sessions
       /\ \A d \in NewDomainInputs :
            (/\ SwitchDomain(s, d)
             /\ (s \notin DOMAIN sessions \/ d \notin DOMAIN DOMAINS))
              => /\ calls'[Len(calls')].value = None
                 /\ sessions' = sessions]_vars

\* a stored session has had an update for a node outside its graph and a
\* switch to an unknown domain, both answered None
C30_Witness ==
  \E c, d \in DOMAIN calls :
    /\ calls[c].func = "update_session_center"
    /\ calls[c].job \in DOMAIN sessions
    /\ calls[c].topic = "not_a_node"
    /\ calls[c].value = None
    /\ calls[d].func = "switch_domain"
    /\ calls[d].job \in DOMAIN sessions
    /\ calls[d].topic = "not_a_domain"
    /\ calls[d].value = None

\* C28: for every topic and title the scene class named in the render
\* command is the class the script written for that topic defines, in
\* generate_manim_video (get_scene_class_name against get_manim_template)
\* and in render_manim_video (its substring tests against the code of
\* generate_manim_code_for_topic)
C28_SceneClassDefined ==
  \A c \in DOMAIN calls :
    calls[c].func \in {"render_manim_video", "generate_manim_video"} =>
      calls[c].value[1].scene_class = calls[c].value[1].defined

\* C27: two jobs never write the same file of the permanent artifact store:
\* the units of work that have written their artifact have written pairwise
\* distinct paths, also when their topics are the same, and the store holds
\* one artifact file for each of them, so none has overwritten another's
OutputPath(t) ==
  IF select_viz_modality(coros[t].topic) = "manim_mp4"
  THEN StaticFile("videos", coros[t].job, coros[t].topic, ".mp4")
  ELSE StaticFile("images", coros[t].job, coros[t].topic, ".svg")

Wrote(t) ==
  /\ coros[t].func = "generate_visualization_task"
  /\ coros[t].pc \in {"returned", "finished"}
  /\ \/ /\ select_viz_modality(coros[t].topic) = "manim_mp4"
        /\ coros[t].outcome \in {"480p15", "720p30", "1080p60"}
     \/ /\ select_viz_modality(coros[t].topic) = "image"
        /\ api_key

C27_DistinctOutputPaths ==
  /\ \A t, u \in DOMAIN coros :
       (t # u /\ Wrote(t) /\ Wrote(u)) => OutputPath(t) # OutputPath(u)
  /\ Cardinality({f \in files : f[1] \in {"videos", "images"}}) =
       Cardinality({t \in DOMAIN coros : Wrote(t)})

\* two jobs for the same topic have both written their artifact
C27_Witness ==
  \E t, u \in DOMAIN coros :
    /\ t # u
    /\ coros[t].topic = coros[u].topic
    /\ Wrote(t) /\ Wrote(u)
    /\ OutputPath(t) \in files /\ OutputPath(u) \in files

\* C29: the detector reports a completed utterance only from the speech
\* state; it enters the speech state only after speech_start_frames
\* consecutive frames above the threshold; completion happens as soon as
\* silence_frames consecutive frames below the threshold have accumulated or
\* the buffer has reached max_utterance_frames, so the detector is never in
\* the speech state with one of the two conditions met; and right after a
\* completion it is idle with both counters at zero and an empty buffer
LastAre(v, n, what) ==
  /\ Len(v.heard) >= n
  /\ \A i \in (Len(v.heard) - n + 1)..Len(v.heard) : v.heard[i] = what

C29_UtteranceSegmentation ==
  [][/\ vad'.ret # None => vad.is_speech
     /\ (~ vad.is_speech /\ vad'.is_speech)
          => LastAre(vad', vad.speech_start_frames, "above")
     /\ vad'.is_speech
          => /\ ~ LastAre(vad', vad.silence_frames, "below")
             /\ Len(vad'.utterance_buffer) < vad.max_utterance_frames
     /\ vad'.ret # None
          => /\ ~ vad'.is_speech
             /\ vad'.speech_start_count = 0
             /\ vad'.silence_count = 0
             /\ vad'.utterance_buffer = <<>>]_vars

=============================================================================
